---- MODULE Spec2Model ----
(***************************************************************************)
(* The checkout and inventory ledger of the AVM point-of-sale application: *)
(* the SQLite database of electron/db (tables of the drizzle schema), the  *)
(* pricing function computeReceiptTotals, the transaction                  *)
(* createReceiptWithItems and the IPC handlers of electron/handlers.ts     *)
(* that read or write the tables a sale touches.                           *)
(*                                                                         *)
(* Numbers.  The code computes with binary64 numbers.  The catalogue and   *)
(* the requests of this model hold integers, and every price times tax     *)
(* rate is a multiple of 100, so every product, sum and tax amount the     *)
(* code computes is an integer far below 2^53: on these values binary64    *)
(* arithmetic is exact and the integer arithmetic below computes the same  *)
(* numbers.  The one inexact operation is the division that allocates the  *)
(* bill discount to a line: Div computes the double it yields, as the      *)
(* quotient n / d plus the rounding error e / (d * 2^pos) of binary64.     *)
(*                                                                         *)
(* Prices and tax rates are not negative.  A price of 0 is in the          *)
(* catalogue (products:add and products:update store the mrp they are      *)
(* given), so that a cart can have a subtotal of 0.                        *)
(*                                                                         *)
(* Time.  The handler of pos:checkout reads the clock once (new Date());   *)
(* the instant is an input of the handler and is what the transactions and *)
(* receipts rows record.  Left out: the other timestamps (datetime of the  *)
(* log rows, updatedAt), the descriptive columns of products and users,    *)
(* and the tables no sale reads or writes.                                 *)
(***************************************************************************)
EXTENDS Integers, Sequences, FiniteSets, TLC

VARIABLES
    db,        \* the SQLite database: one field per table, plus sqlite_sequence
    call,      \* the IPC call the main process handled last: [channel, args]
    reply,     \* what that handler returned: [success, error, data]
    pending,   \* pos:checkout invocations sent by the renderer, not handled yet
    till,      \* the POS page: its bills, the selected payment modes and what
               \* the callbacks of its unresolved checkout calls closed over
    mock,      \* the database of the browser fallback (createMockApi), kept in
               \* localStorage
    currentUser,   \* the session variable of the main process
    awaiting   \* the async handlers suspended at an await, with their locals

\* The state outside the database and the IPC channel: that of the renderer
\* and that of the sessions of the main process.
renderer == <<till, mock>>
session == <<currentUser, awaiting>>

vars == <<db, call, reply, pending, till, mock, currentUser, awaiting>>

(***************************************************************************)
(* Bounds of the model.                                                    *)
(***************************************************************************)
MaxSales == 2          \* committed checkouts in one behaviour
MaxPricedSales == 1    \* committed checkouts in one behaviour of SpecPricing
MaxLines == 2          \* lines of a cart
MaxReceiptsAdd == 1    \* receipts:add calls in one behaviour
MaxPending == 2        \* checkout invocations in flight at once
MaxAwaiting == 2       \* auth handlers stopped at an await at once
MaxBills == 3          \* highest bill id the New-bill and Cancel buttons hand out

Max(a, b) == IF a >= b THEN a ELSE b
Min(a, b) == IF a <= b THEN a ELSE b

RECURSIVE Gcd(_, _)
Gcd(a, b) == IF b = 0 THEN a ELSE Gcd(b, a % b)

(***************************************************************************)
(* Errors.  A thrown Error is its message and the id the message names     *)
(* (0 when it names none); NoError is "nothing was thrown".                *)
(***************************************************************************)
NoError == [msg |-> "", ref |-> 0]
Err(m, r) == [msg |-> m, ref |-> r]

ok(data) == [success |-> TRUE, error |-> NoError, data |-> data]

\* A faulty variant: the error is swallowed and the call reports success.
failSwallowed(e) == [success |-> TRUE, error |-> NoError, data |-> <<>>]

fail(e) == [success |-> FALSE, error |-> e, data |-> <<>>]

(***************************************************************************)
(* The requests of the model.                                              *)
(***************************************************************************)
AdminId == 1           \* the seeded admin
StaffId == 2           \* the seeded staff user; users:update may disable it
GhostUserId == 9       \* an id no users row ever had
Operators == {StaffId, GhostUserId}   \* the createdBy of the model's checkouts

ProductA == 1          \* mrp 4, gst 25
ProductB == 2          \* mrp 100, gst 12
FreeItem == 3          \* mrp 0: a line of it has gross amount 0
GhostProductId == 9    \* an id no products row ever had

\* { productId, qty } of a checkout request
Qtys == 0..2
Lines(refs, qtys) == [productId : refs, qty : qtys]

RECURSIVE SeqsUpTo(_, _)
SeqsUpTo(S, n) ==
    IF n = 0 THEN {<<>>}
    ELSE LET shorter == SeqsUpTo(S, n - 1)
         IN shorter \cup {Append(c, x) : c \in {t \in shorter : Len(t) = n - 1}, x \in S}

Carts(lines) == SeqsUpTo(lines, MaxLines)

PaymentSplits == {[cashAmt |-> 0, upiAmt |-> 0, cardAmt |-> 0]}

\* the args of pos:checkout
CheckoutArgs(users, discounts, lines) ==
    [createdBy : users, discount : discounts, paymentSplit : PaymentSplits,
     items : Carts(lines)]

(***************************************************************************)
(* The database.  A table is the set of its rows; seq is sqlite_sequence,  *)
(* the largest rowid an AUTOINCREMENT table has ever used.                 *)
(***************************************************************************)
InitDb ==
    [users |-> {[id |-> AdminId, role |-> "admin", active |-> TRUE],
                [id |-> StaffId, role |-> "staff", active |-> TRUE]},
     products |-> {[id |-> ProductA, mrp |-> 4, gst |-> 25, quantity |-> 3],
                   [id |-> ProductB, mrp |-> 100, gst |-> 12, quantity |-> 2],
                   [id |-> FreeItem, mrp |-> 0, gst |-> 0, quantity |-> 1]},
     transactions |-> {},
     receipts |-> {},
     transaction_items |-> {},
     product_logs |-> {},
     store_settings |-> {},
     seq |-> [transactions |-> 0, receipts |-> 0, transaction_items |-> 0,
              product_logs |-> 0, store_settings |-> 0]]

Ids(table) == {r.id : r \in table}

\* db.select().from(products).where(eq(products.id, id)).get(): the row, or none
ProductById(d, id) == {p \in d.products : p.id = id}

\* A statement's outcome: the database after it and the error it threw.
Done(d) == [db |-> d, error |-> NoError]
Thrown(d, e) == [db |-> d, error |-> e]

FkFailed == Err("FOREIGN KEY constraint failed", 0)
PkFailed == Err("UNIQUE constraint failed: receipts.id", 0)

(***************************************************************************)
(* Pricing: computeReceiptTotals.                                          *)
(***************************************************************************)
\* Number(p.quantity) < qty
StockShort(p, qty) == p.quantity < qty

\* A faulty variant: the stock is checked before the quantity.
LineErrorStockFirst(d, it) ==
    LET found == ProductById(d, it.productId)
    IN IF found = {} THEN Err("Product not found", it.productId)
       ELSE LET p == CHOOSE x \in found : TRUE
            IN IF StockShort(p, it.qty) THEN Err("Insufficient stock", p.id)
               ELSE IF it.qty <= 0 THEN Err("Invalid quantity", 0)
               ELSE NoError

\* What the callback of items.map throws on one line, NoError if nothing.
LineError(d, it) ==
    LET found == ProductById(d, it.productId)
    IN IF found = {} THEN Err("Product not found", it.productId)
       ELSE LET p == CHOOSE x \in found : TRUE
            IN IF it.qty <= 0 THEN Err("Invalid quantity", 0)
               ELSE IF StockShort(p, it.qty) THEN Err("Insufficient stock", p.id)
               ELSE NoError

\* lineTax = (lineGross * Number(p.gst || 0)) / 100
LineTax(lineGross, gst) == (lineGross * gst) \div 100

\* The row the callback returns: the product as read now, and the line's amounts.
ReceiptRow(d, it) ==
    LET p == CHOOSE x \in ProductById(d, it.productId) : TRUE
        lineGross == p.mrp * it.qty
    IN [product |-> p, qty |-> it.qty, lineGross |-> lineGross,
        lineTax |-> LineTax(lineGross, p.gst)]

RECURSIVE SumGross(_, _)
SumGross(rows, n) == IF n = 0 THEN 0 ELSE SumGross(rows, n - 1) + rows[n].lineGross

RECURSIVE SumTax(_, _)
SumTax(rows, n) == IF n = 0 THEN 0 ELSE SumTax(rows, n - 1) + rows[n].lineTax

\* A faulty variant: the discount is capped at the subtotal but not floored at 0.
ClampDiscountNoFloor(requested, subtotal) == Min(requested, subtotal)

\* discount = Math.max(0, Math.min(Number(args.discount || 0), subtotal))
ClampDiscount(requested, subtotal) == Max(0, Min(requested, subtotal))

\* A faulty variant: the tax is left out of the total.
TotalWithoutTax(subtotal, discount, tax) == Max(0, subtotal - discount)

\* total = Math.max(0, subtotal - discount + tax)
Total(subtotal, discount, tax) == Max(0, subtotal - discount + tax)

\* The lines are examined in cart order; the first line that throws ends the map.
computeReceiptTotals(d, items, requested) ==
    LET bad == {i \in 1..Len(items) : LineError(d, items[i]) # NoError}
    IN IF bad # {}
       THEN [error |-> LineError(d, items[CHOOSE i \in bad : \A j \in bad : i <= j]),
             rows |-> <<>>, subtotal |-> 0, tax |-> 0, discount |-> 0, total |-> 0]
       ELSE LET rows == [i \in 1..Len(items) |-> ReceiptRow(d, items[i])]
                subtotal == SumGross(rows, Len(rows))
                tax == SumTax(rows, Len(rows))
                discount == ClampDiscount(requested, subtotal)
            IN [error |-> NoError, rows |-> rows, subtotal |-> subtotal, tax |-> tax,
                discount |-> discount, total |-> Total(subtotal, discount, tax)]

(***************************************************************************)
(* binary64 division.  Quot(a, b) stands for the double a / b of two       *)
(* integers 0 <= a, 0 < b: it is kept as the fraction in lowest terms that *)
(* the double rounds (two fractions with denominators this small round to  *)
(* the same double only when they are equal).                              *)
(***************************************************************************)
Quot(a, b) == LET g == Gcd(a, b) IN [n |-> a \div g, d |-> b \div g]
Zero == [n |-> 0, d |-> 1, e |-> 0, pos |-> 0]

MantissaBits == 53     \* significand of a binary64 number

RECURSIVE BitLen(_)
BitLen(x) == IF x = 0 THEN 0 ELSE 1 + BitLen(x \div 2)

\* Long division of r / d below the binary point: sig significant bits are out,
\* pos of them after the point, last is the lowest one.  At MantissaBits bits the
\* rest r / (d * 2^pos) is rounded to nearest, ties to even: the double is
\* n / d + e / (d * 2^pos).
RECURSIVE RoundFrom(_, _, _, _, _)
RoundFrom(r, d, sig, pos, last) ==
    IF r = 0 THEN [e |-> 0, pos |-> pos]
    ELSE IF sig >= MantissaBits
    THEN IF 2 * r > d \/ (2 * r = d /\ last = 1)
         THEN [e |-> d - r, pos |-> pos] ELSE [e |-> 0 - r, pos |-> pos]
    ELSE LET bit == IF 2 * r >= d THEN 1 ELSE 0
         IN RoundFrom(2 * r - bit * d, d, IF sig > 0 \/ bit = 1 THEN sig + 1 ELSE 0,
                      pos + 1, bit)

RoundErr(q) == RoundFrom(q.n % q.d, q.d, BitLen(q.n \div q.d), 0, (q.n \div q.d) % 2)

\* The double a / b, for integers a >= 0 and b > 0: n / d + e / (d * 2^pos).
Div(a, b) ==
    LET q == Quot(a, b)
        r == RoundErr(q)
    IN [n |-> q.n, d |-> q.d, e |-> r.e, pos |-> r.pos]

(***************************************************************************)
(* The statements of createReceiptWithItems.  Foreign keys are enforced    *)
(* (PRAGMA foreign_keys = ON) and checked as each statement ends.          *)
(***************************************************************************)
NextId(d, table) == d.seq[table] + 1

\* A faulty variant: the transactions row stores the subtotal as its final amount.
InsertTransactionSubtotal(d, t, split, date, createdBy) ==
    Done([d EXCEPT
        !.transactions = @ \cup {[id |-> d.seq.transactions + 1,
                                  finalAmount |-> t.subtotal, tax |-> t.tax,
                                  paymentSplit |-> split, discount |-> t.discount,
                                  transactionDate |-> date, createdBy |-> createdBy]},
        !.seq.transactions = @ + 1])

\* db.insert(transactions).values({...}).run()
InsertTransaction(d, t, split, date, createdBy) ==
    IF createdBy \notin Ids(d.users) THEN Thrown(d, FkFailed)
    ELSE Done([d EXCEPT
             !.transactions = @ \cup {[id |-> NextId(d, "transactions"),
                                       finalAmount |-> t.total, tax |-> t.tax,
                                       paymentSplit |-> split, discount |-> t.discount,
                                       transactionDate |-> date,
                                       createdBy |-> createdBy]},
             !.seq.transactions = @ + 1])

\* A faulty variant: the receipts row takes the next id of its own table.
InsertReceiptOwnId(d, id, t, split, date, createdBy) ==
    IF createdBy \notin Ids(d.users) THEN Thrown(d, FkFailed)
    ELSE Done([d EXCEPT
             !.receipts = @ \cup {[id |-> d.seq.receipts + 1, totalAmount |-> t.total,
                                   tax |-> t.tax, paymentSplit |-> split,
                                   discount |-> t.discount, receiptDate |-> date,
                                   createdBy |-> createdBy]},
             !.seq.receipts = @ + 1])

\* db.insert(receipts).values({ id: transactionId, ... }).run()
InsertReceipt(d, id, t, split, date, createdBy) ==
    IF id \in Ids(d.receipts) THEN Thrown(d, PkFailed)
    ELSE IF createdBy \notin Ids(d.users) THEN Thrown(d, FkFailed)
    ELSE Done([d EXCEPT
             !.receipts = @ \cup {[id |-> id, totalAmount |-> t.total, tax |-> t.tax,
                                   paymentSplit |-> split, discount |-> t.discount,
                                   receiptDate |-> date,
                                   createdBy |-> createdBy]},
             !.seq.receipts = Max(@, id)])

\* A faulty variant: the discount is split evenly over the lines.
LineDiscountEven(t, r) == IF t.subtotal > 0 THEN Div(t.discount, Len(t.rows)) ELSE Zero

\* lineDiscount = subtotal > 0 ? (discount * r.lineGross) / subtotal : 0
LineDiscount(t, r) == IF t.subtotal > 0 THEN Div(t.discount * r.lineGross, t.subtotal) ELSE Zero

\* db.insert(transactionItems).values({...}).run()
InsertTransactionItem(d, transactionId, r, lineDiscount) ==
    IF transactionId \notin Ids(d.transactions) \/ r.product.id \notin Ids(d.products)
    THEN Thrown(d, FkFailed)
    ELSE Done([d EXCEPT
             !.transaction_items = @ \cup {[id |-> NextId(d, "transaction_items"),
                                            transactionId |-> transactionId,
                                            productId |-> r.product.id,
                                            quantity |-> r.qty, unitPrice |-> r.product.mrp,
                                            amount |-> r.lineGross, tax |-> r.lineTax,
                                            discount |-> lineDiscount]},
             !.seq.transaction_items = @ + 1])

\* A faulty variant: no log row is written.
InsertProductLogSkipped(d, receiptId, r, lineDiscount) == Done(d)

\* db.insert(productLogs).values({...}).run()
InsertProductLog(d, receiptId, r, lineDiscount) ==
    IF receiptId \notin Ids(d.receipts) \/ r.product.id \notin Ids(d.products)
    THEN Thrown(d, FkFailed)
    ELSE Done([d EXCEPT
             !.product_logs = @ \cup {[id |-> NextId(d, "product_logs"),
                                       productId |-> r.product.id, receiptId |-> receiptId,
                                       type |-> "sale", quantity |-> r.qty,
                                       amount |-> r.lineGross, tax |-> r.lineTax,
                                       discount |-> lineDiscount]},
             !.seq.product_logs = @ + 1])

\* A faulty variant: the update writes back the quantity that was read.
NewQuantityKept(r) == r.product.quantity

\* The quantity the update writes: that of the row as computeReceiptTotals read it,
\* less the line's quantity.
NewQuantity(r) == r.product.quantity - r.qty

\* db.update(products).set({ quantity: ... }).where(eq(products.id, r.product.id)).run()
UpdateProductQuantity(d, r) ==
    Done([d EXCEPT !.products =
             {IF p.id = r.product.id THEN [p EXCEPT !.quantity = NewQuantity(r)] ELSE p : p \in @}])

\* One turn of "for (const r of rows)": a statement that throws ends the turn.
WriteLine(d, transactionId, t, r) ==
    LET lineDiscount == LineDiscount(t, r)
        s1 == InsertTransactionItem(d, transactionId, r, lineDiscount)
        s2 == IF s1.error # NoError THEN s1
              ELSE InsertProductLog(s1.db, transactionId, r, lineDiscount)
    IN IF s2.error # NoError THEN s2 ELSE UpdateProductQuantity(s2.db, r)

\* A faulty variant: the rows are written last line first.
RECURSIVE WriteLinesReversed(_, _, _, _)
WriteLinesReversed(s, transactionId, t, i) ==
    IF s.error # NoError \/ i > Len(t.rows) THEN s
    ELSE WriteLinesReversed(WriteLine(s.db, transactionId, t, t.rows[Len(t.rows) + 1 - i]),
                            transactionId, t, i + 1)

RECURSIVE WriteLines(_, _, _, _)
WriteLines(s, transactionId, t, i) ==
    IF s.error # NoError \/ i > Len(t.rows) THEN s
    ELSE WriteLines(WriteLine(s.db, transactionId, t, t.rows[i]), transactionId, t, i + 1)

\* Number(split.<field> || 0): the amount given, 0 for a field that is missing.
AmountOrZero(split, field) == IF field \in DOMAIN split THEN split[field] ELSE 0

\* splitToJson: { cashAmt: Number(split.cashAmt || 0), ... }
splitToJson(split) ==
    [cashAmt |-> AmountOrZero(split, "cashAmt"), upiAmt |-> AmountOrZero(split, "upiAmt"),
     cardAmt |-> AmountOrZero(split, "cardAmt")]

\* A faulty variant: the transactions row is inserted before the lines are priced.
ReceiptBodyWriteFirst(d, args) ==
    LET t == computeReceiptTotals(d, args.items, args.discount)
        transactionId == d.seq.transactions + 1
        s1 == InsertTransaction(d, t, splitToJson(args.paymentSplit), args.receiptDate,
                                args.createdBy)
        s2 == IF s1.error # NoError THEN s1
              ELSE InsertReceipt(s1.db, transactionId, t, splitToJson(args.paymentSplit),
                                 args.receiptDate, args.createdBy)
        s3 == WriteLines(s2, transactionId, t, 1)
    IN IF t.error # NoError THEN [db |-> s1.db, error |-> t.error, value |-> <<>>]
       ELSE [db |-> s3.db, error |-> s3.error,
             value |-> [receiptId |-> transactionId, transactionId |-> transactionId,
                        totalAmount |-> t.total, tax |-> t.tax, discount |-> t.discount]]

\* The function handed to sqlite.transaction, run on database d: the database it
\* has written and what it threw.
ReceiptBody(d, args) ==
    LET t == computeReceiptTotals(d, args.items, args.discount)
        transactionId == NextId(d, "transactions")
        s1 == InsertTransaction(d, t, splitToJson(args.paymentSplit), args.receiptDate,
                                args.createdBy)
        s2 == IF s1.error # NoError THEN s1
              ELSE InsertReceipt(s1.db, transactionId, t, splitToJson(args.paymentSplit),
                                 args.receiptDate, args.createdBy)
        s3 == WriteLines(s2, transactionId, t, 1)
    IN IF t.error # NoError THEN [db |-> d, error |-> t.error, value |-> <<>>]
       ELSE [db |-> s3.db, error |-> s3.error,
             value |-> [receiptId |-> transactionId, transactionId |-> transactionId,
                        totalAmount |-> t.total, tax |-> t.tax, discount |-> t.discount]]

\* A faulty variant: the statements run outside a transaction, nothing is rolled back.
TransactionNoRollback(before, r) == r

\* sqlite.transaction(fn)(): commit when fn returns, roll back when it throws.
Transaction(before, r) == IF r.error # NoError THEN [r EXCEPT !.db = before] ELSE r

createReceiptWithItems(d, args) == Transaction(d, ReceiptBody(d, args))

(***************************************************************************)
(* The IPC handlers.  Each is a synchronous callback of ipcMain.handle: it *)
(* runs to its return before the main process takes the next message.  The *)
(* value it returns travels back to the renderer as the reply; Deliver is  *)
(* the renderer's invoke() promise resolving with it.                      *)
(***************************************************************************)
NoCall == [channel |-> "", args |-> <<>>]
Idle == call = NoCall

Handled(channel, args, result) ==
    /\ call' = [channel |-> channel, args |-> args]
    /\ reply' = result

Deliver ==
    /\ ~Idle
    /\ call' = NoCall
    /\ reply' = ok(<<>>)
    /\ UNCHANGED <<db, pending, renderer, session>>

\* The instants the clock of the main process can show.
Epoch == 0
Clock == {Epoch, 1}

\* What the handler of pos:checkout hands to createReceiptWithItems when the
\* clock shows now: { createdBy, receiptDate: new Date(), discount, paymentSplit, items }
EngineArgs(args, now) ==
    [createdBy |-> args.createdBy, receiptDate |-> now, discount |-> args.discount,
     paymentSplit |-> args.paymentSplit, items |-> args.items]

\* ipcMain.handle("pos:checkout", ...), run at the instant now
PosCheckoutAt(args, now) ==
    LET r == createReceiptWithItems(db, EngineArgs(args, now))
    IN /\ Idle
       /\ db' = r.db
       /\ Handled("pos:checkout", args, IF r.error = NoError THEN ok(r.value) ELSE fail(r.error))

\* The same handler in the specifications where the clock stands still.
PosCheckout(args) == PosCheckoutAt(args, Epoch)

\* ipcMain.handle("receipts:add", ...)
ReceiptsAdd(args) ==
    /\ Idle
    /\ db.seq.receipts - db.seq.transactions < MaxReceiptsAdd
    /\ IF args.createdBy \notin Ids(db.users)
       THEN /\ db' = db
            /\ Handled("receipts:add", args, fail(FkFailed))
       ELSE /\ db' = [db EXCEPT
                  !.receipts = @ \cup {[id |-> NextId(db, "receipts"),
                                        totalAmount |-> args.totalAmount, tax |-> args.tax,
                                        paymentSplit |-> args.paymentSplit,
                                        discount |-> args.discount,
                                        receiptDate |-> Epoch,
                                        createdBy |-> args.createdBy]},
                  !.seq.receipts = @ + 1]
            /\ Handled("receipts:add", args, ok([receiptId |-> NextId(db, "receipts")]))

\* ipcMain.handle("storeSettings:upsert", ...)
StoreSettingsUpsert(args) ==
    LET existing == {r \in db.store_settings : r.userId = args.userId}
    IN /\ Idle
       /\ IF existing = {}
          THEN IF args.userId \notin Ids(db.users)
               THEN /\ db' = db
                    /\ Handled("storeSettings:upsert", args, fail(FkFailed))
               ELSE /\ db' = [db EXCEPT
                          !.store_settings = @ \cup
                              {[id |-> NextId(db, "store_settings"), userId |-> args.userId,
                                allowNegativeStock |-> args.allowNegativeStock]},
                          !.seq.store_settings = @ + 1]
                    /\ Handled("storeSettings:upsert", args, ok(<<>>))
          ELSE /\ db' = [db EXCEPT !.store_settings =
                           {IF r.userId = args.userId
                            THEN [r EXCEPT !.allowNegativeStock = args.allowNegativeStock]
                            ELSE r : r \in @}]
               /\ Handled("storeSettings:upsert", args, ok(<<>>))

\* assertAdmin(currentUserId): what it throws, NoError if nothing
assertAdmin(d, currentUserId) ==
    LET u == {x \in d.users : x.id = currentUserId}
    IN IF u = {} THEN Err("Current user not found", 0)
       ELSE IF \E x \in u : x.role # "admin" THEN Err("Access denied (admin only)", 0)
       ELSE NoError

\* .set(patch): the columns the patch names take its values.
Patched(row, patch) ==
    [f \in DOMAIN row |-> IF f \in DOMAIN patch THEN patch[f] ELSE row[f]]

\* ipcMain.handle("users:update", ...)
UsersUpdate(args) ==
    /\ Idle
    /\ IF assertAdmin(db, args.currentUserId) # NoError
       THEN /\ db' = db
            /\ Handled("users:update", args, fail(assertAdmin(db, args.currentUserId)))
       ELSE /\ db' = [db EXCEPT !.users =
                        {IF u.id = args.id THEN Patched(u, args.patch) ELSE u : u \in @}]
            /\ Handled("users:update", args, ok(<<>>))

\* ipcMain.handle("products:update", ...) with a patch of the quantity: the
\* patch is stored as given.
ProductsUpdate(args) ==
    /\ Idle
    /\ db' = [db EXCEPT !.products =
                  {IF p.id = args.id THEN [p EXCEPT !.quantity = args.args.quantity] ELSE p :
                      p \in @}]
    /\ Handled("products:update", args, ok(<<>>))

\* ipcMain.handle("products:delete", ...): three statements, each committed as it
\* ends: the product's log rows, its transaction_items rows, then the product.
ProductsDelete(args) ==
    /\ Idle
    /\ db' = [db EXCEPT
              !.product_logs = {l \in @ : l.productId # args.id},
              !.transaction_items = {i \in @ : i.productId # args.id},
              !.products = {p \in @ : p.id # args.id}]
    /\ Handled("products:delete", args, ok(<<>>))

\* ipcMain.handle("receipts:delete", ...): product_logs.receipt_id REFERENCES
\* receipts(id), so a receipt that log rows point to cannot be deleted.
ReceiptsDelete(args) ==
    /\ Idle
    /\ IF \E l \in db.product_logs : l.receiptId = args.id
       THEN /\ db' = db
            /\ Handled("receipts:delete", args, fail(FkFailed))
       ELSE /\ db' = [db EXCEPT !.receipts = {r \in @ : r.id # args.id}]
            /\ Handled("receipts:delete", args, ok(<<>>))

\* currentUser = null
NoUser == [id |-> 0, name |-> "", role |-> ""]

(***************************************************************************)
(* Users and sessions.  A users row is [id, name, password, role, active]. *)
(* The password column holds a string: either a bcrypt hash of some text   *)
(* (the salt plays no part in what compare answers) or a text stored as it *)
(* was given, which is no bcrypt hash of anything.                         *)
(***************************************************************************)
Hash(password) == [bcrypt |-> TRUE, text |-> password]

\* A string put into the password column as it is.
Plain(password) == [bcrypt |-> FALSE, text |-> password]

\* bcrypt.compare(password, stored)
Compare(password, stored) == stored = Hash(password)

\* seedDbIfEmpty: the users it inserts (the manager is left out) and a sample
\* receipt, which createReceiptWithItems stores with createdBy: admin.id.
SeedUsers ==
    {[id |-> AdminId, name |-> "admin", password |-> Hash("1234"), role |-> "admin",
      active |-> TRUE],
     [id |-> StaffId, name |-> "staff1", password |-> Hash("staff123"), role |-> "staff",
      active |-> TRUE]}

SeedSale ==
    [createdBy |-> AdminId, receiptDate |-> Epoch, discount |-> 0,
     paymentSplit |-> [cashAmt |-> 0, upiAmt |-> 0, cardAmt |-> 0],
     items |-> <<[productId |-> ProductA, qty |-> 1]>>]

AuthDb ==
    createReceiptWithItems(
        [users |-> SeedUsers,
         products |-> InitDb.products,
         transactions |-> {}, receipts |-> {}, transaction_items |-> {}, product_logs |-> {},
         store_settings |-> {}, user_settings |-> {}, notifications |-> {},
         seq |-> [transactions |-> 0, receipts |-> 0, transaction_items |-> 0,
                  product_logs |-> 0, store_settings |-> 0, user_settings |-> 0,
                  notifications |-> 0, users |-> Cardinality(SeedUsers)]],
        SeedSale).db

\* An async handler stops at its await: its arguments and locals are kept
\* until the promise it awaits settles.
Suspend(channel, args, locals) ==
    /\ awaiting' = Append(awaiting, [channel |-> channel, args |-> args, locals |-> locals])
    /\ UNCHANGED <<call, reply>>

\* ipcMain.handle("auth:setup-admin", ...) up to await bcrypt.hash(password, 10)
AuthSetupAdmin(args) ==
    /\ Idle
    /\ Len(awaiting) < MaxAwaiting
    /\ UNCHANGED <<db, currentUser>>
    /\ IF Cardinality(db.users) > 0
       THEN /\ Handled("auth:setup-admin", args, ok([message |-> "Already initialized"]))
            /\ UNCHANGED awaiting
       ELSE Suspend("auth:setup-admin", args, <<>>)

\* db.insert(users).values({...}).run(): name is UNIQUE, active defaults to true.
InsertUser(d, name, password, role) ==
    IF \E u \in d.users : u.name = name
    THEN Thrown(d, Err("UNIQUE constraint failed: users.name", 0))
    ELSE Done([d EXCEPT
             !.users = @ \cup {[id |-> NextId(d, "users"), name |-> name,
                                password |-> password, role |-> role, active |-> TRUE]},
             !.seq.users = @ + 1])

\* ... and from the await on: the hash is inserted, whatever the table holds by now.
SetupAdminResumed(frame) ==
    LET r == InsertUser(db, frame.args.name, Hash(frame.args.password), "admin")
    IN /\ db' = r.db
       /\ UNCHANGED currentUser
       /\ Handled(frame.channel, frame.args,
                  IF r.error = NoError THEN ok(<<>>) ELSE fail(r.error))

\* ipcMain.handle("auth:login", ...) up to await bcrypt.compare(password, u.password)
AuthLogin(args) ==
    LET found == {u \in db.users : u.name = args.name}
    IN /\ Idle
       /\ Len(awaiting) < MaxAwaiting
       /\ UNCHANGED <<db, currentUser>>
       /\ IF found = {}
          THEN /\ Handled("auth:login", args, fail(Err("Invalid credentials", 0)))
               /\ UNCHANGED awaiting
          ELSE Suspend("auth:login", args, CHOOSE u \in found : TRUE)

\* ... and from the await on, with the row u read before it.
LoginResumed(frame) ==
    LET u == frame.locals
    IN /\ UNCHANGED db
       /\ IF ~Compare(frame.args.password, u.password)
          THEN /\ Handled(frame.channel, frame.args, fail(Err("Invalid credentials", 0)))
               /\ UNCHANGED currentUser
          ELSE IF ~u.active
          THEN /\ Handled(frame.channel, frame.args, fail(Err("User is disabled", 0)))
               /\ UNCHANGED currentUser
          ELSE /\ currentUser' = [id |-> u.id, name |-> u.name, role |-> u.role]
               /\ Handled(frame.channel, frame.args,
                          ok([user |-> [id |-> u.id, name |-> u.name, role |-> u.role]]))

\* The promise an async handler awaits settles (the hashes are computed on
\* the thread pool, in no fixed order) and the handler runs to its end.
Resume(i) ==
    /\ Idle
    /\ i \in 1..Len(awaiting)
    /\ awaiting' = [j \in 1..(Len(awaiting) - 1) |-> awaiting[IF j < i THEN j ELSE j + 1]]
    /\ IF awaiting[i].channel = "auth:setup-admin" THEN SetupAdminResumed(awaiting[i])
       ELSE LoginResumed(awaiting[i])

\* ipcMain.handle("auth:logout", ...)
AuthLogout ==
    /\ Idle
    /\ currentUser' = NoUser
    /\ Handled("auth:logout", <<>>, ok(<<>>))
    /\ UNCHANGED <<db, awaiting>>

\* ipcMain.handle("users:create", ...): the password is stored as given.
UsersCreate(args) ==
    LET r == InsertUser(db, args.name, Plain(args.password), args.role)
    IN /\ Idle
       /\ IF assertAdmin(db, args.currentUserId) # NoError
          THEN /\ db' = db
               /\ Handled("users:create", args, fail(assertAdmin(db, args.currentUserId)))
          ELSE /\ db' = r.db
               /\ Handled("users:create", args,
                          IF r.error = NoError THEN ok(<<>>) ELSE fail(r.error))

\* A faulty variant: no foreign key stands in the way of deleting a user.
UserNeverReferenced(d, id) == FALSE

\* Whether a row of a table with a column REFERENCES users(id) names the user.
UserReferenced(d, id) ==
    \/ \E r \in d.receipts \cup d.transactions : r.createdBy = id
    \/ \E r \in d.user_settings \cup d.store_settings \cup d.notifications : r.userId = id

\* ipcMain.handle("users:delete", ...): four statements, each committed as it
\* ends; the first one deletes the users row.
UsersDelete(args) ==
    /\ Idle
    /\ IF assertAdmin(db, args.currentUserId) # NoError
       THEN /\ db' = db
            /\ Handled("users:delete", args, fail(assertAdmin(db, args.currentUserId)))
       ELSE IF args.id \in Ids(db.users) /\ UserReferenced(db, args.id)
       THEN /\ db' = db
            /\ Handled("users:delete", args, fail(FkFailed))
       ELSE /\ db' = [db EXCEPT
                  !.users = {u \in @ : u.id # args.id},
                  !.user_settings = {r \in @ : r.userId # args.id},
                  !.store_settings = {r \in @ : r.userId # args.id},
                  !.notifications = {r \in @ : r.userId # args.id}]
            /\ Handled("users:delete", args, ok(<<>>))

\* ipcMain.handle("userSettings:upsert", ...)
UserSettingsUpsert(args) ==
    LET existing == {r \in db.user_settings : r.userId = args.userId}
    IN /\ Idle
       /\ IF existing = {}
          THEN IF args.userId \notin Ids(db.users)
               THEN /\ db' = db
                    /\ Handled("userSettings:upsert", args, fail(FkFailed))
               ELSE /\ db' = [db EXCEPT
                          !.user_settings = @ \cup
                              {[id |-> NextId(db, "user_settings"), userId |-> args.userId,
                                landingPage |-> args.landingPage]},
                          !.seq.user_settings = @ + 1]
                    /\ Handled("userSettings:upsert", args, ok(<<>>))
          ELSE /\ db' = [db EXCEPT !.user_settings =
                           {IF r.userId = args.userId
                            THEN [r EXCEPT !.landingPage = args.landingPage]
                            ELSE r : r \in @}]
               /\ Handled("userSettings:upsert", args, ok(<<>>))

\* ipcMain.handle("notifications:upsert", ...) with only userId given: every
\* other column takes its default.
NotificationsUpsert(args) ==
    LET existing == {r \in db.notifications : r.userId = args.userId}
    IN /\ Idle
       /\ IF existing = {}
          THEN IF args.userId \notin Ids(db.users)
               THEN /\ db' = db
                    /\ Handled("notifications:upsert", args, fail(FkFailed))
               ELSE /\ db' = [db EXCEPT
                          !.notifications = @ \cup
                              {[id |-> NextId(db, "notifications"), userId |-> args.userId,
                                notifyExpiry |-> TRUE]},
                          !.seq.notifications = @ + 1]
                    /\ Handled("notifications:upsert", args, ok(<<>>))
          ELSE /\ db' = [db EXCEPT !.notifications =
                           {IF r.userId = args.userId THEN [r EXCEPT !.notifyExpiry = TRUE]
                            ELSE r : r \in @}]
               /\ Handled("notifications:upsert", args, ok(<<>>))

\* The model handles a checkout that would commit only while fewer than max
\* sales are stored; one that fails is handled at any time.
SalesLeft(max, args) ==
    \/ Cardinality(db.transactions) < max
    \/ createReceiptWithItems(db, EngineArgs(args, Epoch)).error # NoError

(***************************************************************************)
(* The POS page (POSPage).  Its state is the list of open bills, the id of *)
(* the bill shown, the payment modes ticked, and, for every checkout       *)
(* request whose promise has not settled, what the callback of the promise *)
(* closed over when Pay & Save was clicked.                                *)
(***************************************************************************)
\* The bill createNewBill appends, and the one the page starts with.
NewBill(id) ==
    [id |-> id, items |-> <<>>, billDiscount |-> 0, cashAmt |-> 0, upiAmt |-> 0, cardAmt |-> 0]

(***************************************************************************)
(* The browser fallback: createMockApi of src/lib/User.ts, which keeps its *)
(* database as one JSON document.  loadDb parses a fresh copy, checkout    *)
(* changes the copy and saveDb stores it; a checkout that throws stores    *)
(* nothing.                                                                *)
(***************************************************************************)
\* What the callback of items.map throws in computeTotals, NoError if nothing.
MockLineError(m, it) ==
    LET found == {p \in m.products : p.id = it.productId}
    IN IF found = {} THEN Err("Product not found", it.productId)
       ELSE LET p == CHOOSE x \in found : TRUE
            IN IF it.qty <= 0 THEN Err("Invalid quantity", 0)
               ELSE IF p.quantity < it.qty THEN Err("Insufficient stock", p.id)
               ELSE NoError

\* { product: p, qty, lineGross, lineTax }; product is the object of the copy.
MockRow(m, it) ==
    LET p == CHOOSE x \in m.products : x.id = it.productId
    IN [product |-> p, qty |-> it.qty, lineGross |-> p.mrp * it.qty,
        lineTax |-> (p.mrp * it.qty * p.gst) \div 100]

computeTotals(m, items, requested) ==
    LET bad == {i \in 1..Len(items) : MockLineError(m, items[i]) # NoError}
    IN IF bad # {}
       THEN [error |-> MockLineError(m, items[CHOOSE i \in bad : \A j \in bad : i <= j]),
             rows |-> <<>>, subtotal |-> 0, tax |-> 0, discount |-> 0, total |-> 0]
       ELSE LET rows == [i \in 1..Len(items) |-> MockRow(m, items[i])]
                subtotal == SumGross(rows, Len(rows))
                tax == SumTax(rows, Len(rows))
                discount == Max(0, Min(requested, subtotal))
            IN [error |-> NoError, rows |-> rows, subtotal |-> subtotal, tax |-> tax,
                discount |-> discount, total |-> Max(0, subtotal - discount + tax)]

\* The body of the loop over rows, for rows i..Len(rows): a log row is pushed
\* and the quantity of the product object is lowered by the line's quantity.
RECURSIVE MockWriteLines(_, _, _, _)
MockWriteLines(m, receiptId, t, i) ==
    IF i > Len(t.rows) THEN m
    ELSE LET r == t.rows[i]
             lineDiscount == IF t.subtotal > 0 THEN Div(t.discount * r.lineGross, t.subtotal)
                             ELSE Zero
             logged == [m EXCEPT
                 !.logs = @ \cup {[id |-> m.nextIds.log, productId |-> r.product.id,
                                   receiptId |-> receiptId, type |-> "sale",
                                   quantity |-> r.qty, amount |-> r.lineGross,
                                   tax |-> r.lineTax, discount |-> lineDiscount]},
                 !.nextIds.log = @ + 1,
                 !.products = {IF p.id = r.product.id THEN [p EXCEPT !.quantity = @ - r.qty]
                               ELSE p : p \in @}]
         IN MockWriteLines(logged, receiptId, t, i + 1)

\* createMockApi().checkout: the database it stores, what it throws and what
\* it returns.
checkout(m, args) ==
    LET t == computeTotals(m, args.items, args.discount)
        receiptId == m.nextIds.receipt
        pushed == [m EXCEPT
            !.nextIds.receipt = @ + 1,
            !.receipts = @ \cup {[id |-> receiptId, totalAmount |-> t.total, tax |-> t.tax,
                                  paymentSplit |-> args.paymentSplit,
                                  discount |-> t.discount, createdBy |-> args.createdBy]}]
    IN IF args.createdBy \notin Ids(m.users)
       THEN [db |-> m, error |-> Err("User not found", 0), value |-> <<>>]
       ELSE IF t.error # NoError THEN [db |-> m, error |-> t.error, value |-> <<>>]
       ELSE [db |-> MockWriteLines(pushed, receiptId, t, 1), error |-> NoError,
             value |-> [receiptId |-> receiptId, totalAmount |-> t.total, tax |-> t.tax,
                        discount |-> t.discount]]

\* The database of the browser fallback, with the users and the products of d.
MockDbOf(d) ==
    [users |-> d.users, products |-> d.products, receipts |-> {}, logs |-> {},
     nextIds |-> [receipt |-> 1, log |-> 1]]

InitMock == MockDbOf(InitDb)

\* Outside the specifications of the browser fallback and of the sessions,
\* their state stays as it begins.
InitRest ==
    /\ currentUser = NoUser
    /\ awaiting = <<>>

InitTill ==
    [bills |-> <<NewBill(1)>>, activeBillId |-> 1, selectedPayments |-> {"cash"}, sent |-> <<>>]

\* The database as the seed leaves it, for the specifications of the sessions.
InitAuth ==
    /\ db = AuthDb
    /\ call = NoCall
    /\ reply = ok(<<>>)
    /\ pending = <<>>
    /\ till = InitTill
    /\ mock = InitMock
    /\ InitRest

(***************************************************************************)
(* Spec: the ledger.  The renderer invokes a handler and awaits its reply  *)
(* before it invokes the next one.                                         *)
(***************************************************************************)
Init ==
    /\ db = InitDb
    /\ call = NoCall
    /\ reply = ok(<<>>)
    /\ pending = <<>>
    /\ till = InitTill
    /\ mock = InitMock
    /\ InitRest

LedgerLines == Lines({ProductA}, Qtys) \cup Lines({GhostProductId}, {1})

LedgerArgs == CheckoutArgs(Operators, {0}, LedgerLines)

ReceiptsAddArgs ==
    [totalAmount : {0}, tax : {0}, paymentSplit : PaymentSplits, discount : {0},
     createdBy : {AdminId}]

Next ==
    \/ \E args \in LedgerArgs :
           Idle /\ SalesLeft(MaxSales, args) /\ PosCheckout(args)
                  /\ UNCHANGED <<pending, renderer, session>>
    \/ \E args \in ReceiptsAddArgs : ReceiptsAdd(args) /\ UNCHANGED <<pending, renderer, session>>
    \/ Deliver

Spec == Init /\ [][Next]_vars

(***************************************************************************)
(* SpecPolicy: checkouts while an admin switches the store's negative-     *)
(* stock policy and disables or enables the staff user.                    *)
(***************************************************************************)
PolicyArgs == CheckoutArgs({StaffId}, {0}, Lines({ProductA}, Qtys))

StoreSettingsArgs == [userId : {AdminId}, allowNegativeStock : BOOLEAN]

UsersUpdateArgs ==
    [currentUserId : {AdminId, StaffId}, id : {StaffId}, patch : [active : BOOLEAN]]

NextPolicy ==
    \/ \E args \in PolicyArgs :
           Idle /\ SalesLeft(MaxSales, args) /\ PosCheckout(args)
                  /\ UNCHANGED <<pending, renderer, session>>
    \/ \E args \in StoreSettingsArgs : StoreSettingsUpsert(args)
           /\ UNCHANGED <<pending, renderer, session>>
    \/ \E args \in UsersUpdateArgs : UsersUpdate(args) /\ UNCHANGED <<pending, renderer, session>>
    \/ Deliver

SpecPolicy == Init /\ [][NextPolicy]_vars

(***************************************************************************)
(* SpecPricing: checkouts of one operator over a priced and a free         *)
(* product, with every kind of requested discount.                         *)
(***************************************************************************)
Discounts == {-1, 0, 10, 500}

PricingLines == Lines({ProductB}, 1..2) \cup Lines({FreeItem}, {1})

PricingArgs == CheckoutArgs({AdminId}, Discounts, PricingLines)

NextPricing ==
    \/ \E args \in PricingArgs :
           Idle /\ SalesLeft(MaxPricedSales, args) /\ PosCheckout(args)
                  /\ UNCHANGED <<pending, renderer, session>>
    \/ Deliver

SpecPricing == Init /\ [][NextPricing]_vars

(***************************************************************************)
(* SpecReceipt: checkouts at different instants and with different payment *)
(* splits (one of them with a negative amount, one with amounts missing),  *)
(* next to receipts:add.                                                   *)
(***************************************************************************)
Splits ==
    {[cashAmt |-> 102, upiAmt |-> 0, cardAmt |-> 0],
     [cashAmt |-> -5, upiAmt |-> 0, cardAmt |-> 107],
     [upiAmt |-> 102]}

ReceiptArgs ==
    [createdBy : {StaffId}, discount : {10}, paymentSplit : Splits,
     items : Carts(Lines({ProductB}, {1}))]

NextReceipt ==
    \/ \E args \in ReceiptArgs, now \in Clock :
           Idle /\ SalesLeft(MaxSales, args) /\ PosCheckoutAt(args, now)
                  /\ UNCHANGED <<pending, renderer, session>>
    \/ \E args \in ReceiptsAddArgs : ReceiptsAdd(args) /\ UNCHANGED <<pending, renderer, session>>
    \/ Deliver

SpecReceipt == Init /\ [][NextReceipt]_vars

(***************************************************************************)
(* SpecArchive: checkouts, and the handlers that delete products and       *)
(* receipts.                                                               *)
(***************************************************************************)
ArchiveArgs == CheckoutArgs({StaffId}, {0}, Lines({ProductA, ProductB}, {1}))

ProductsDeleteArgs == [id : {ProductA, GhostProductId}]

ReceiptsDeleteArgs == [id : 1..MaxSales]

NextArchive ==
    \/ \E args \in ArchiveArgs :
           Idle /\ SalesLeft(MaxSales, args) /\ PosCheckout(args)
                  /\ UNCHANGED <<pending, renderer, session>>
    \/ \E args \in ProductsDeleteArgs : ProductsDelete(args)
           /\ UNCHANGED <<pending, renderer, session>>
    \/ \E args \in ReceiptsDeleteArgs : ReceiptsDelete(args)
           /\ UNCHANGED <<pending, renderer, session>>
    \/ Deliver

SpecArchive == Init /\ [][NextArchive]_vars

(***************************************************************************)
(* SpecOrder: checkouts whose lines fail one check or several: a product   *)
(* that does not exist asked with quantity 0, and a quantity 0 of a        *)
(* product whose stock a products:update has set below zero.               *)
(***************************************************************************)
OrderLines == Lines({ProductA}, {0, 2}) \cup Lines({GhostProductId}, {0})

OrderArgs == CheckoutArgs({StaffId}, {0}, OrderLines)

ProductsUpdateArgs == [id : {ProductA}, args : [quantity : {-1, 2}]]

NextOrder ==
    \/ \E args \in ProductsUpdateArgs : ProductsUpdate(args)
           /\ UNCHANGED <<pending, renderer, session>>
    \/ \E args \in OrderArgs :
           Idle /\ SalesLeft(MaxSales, args) /\ PosCheckout(args)
                  /\ UNCHANGED <<pending, renderer, session>>
    \/ Deliver

SpecOrder == Init /\ [][NextOrder]_vars

(***************************************************************************)
(* SpecMock: the same checkout request is given to the Electron build and  *)
(* to the browser fallback, each on its own database; the two databases    *)
(* start with the same users and products.                                 *)
(***************************************************************************)
MockArgs == CheckoutArgs({StaffId, GhostUserId}, {0, 10}, Lines({ProductA}, 1..2))

\* window.api.checkout(args) in one build and in the other.
BothCheckout(args) ==
    /\ PosCheckout(args)
    /\ mock' = checkout(mock, args).db
    /\ UNCHANGED <<pending, till, session>>

NextMock ==
    \/ \E args \in MockArgs : SalesLeft(MaxSales, args) /\ BothCheckout(args)
    \/ Deliver

SpecMock == Init /\ [][NextMock]_vars

(***************************************************************************)
(* SpecConc: the renderer sends checkout invocations without awaiting the  *)
(* replies of the earlier ones; the main process takes them from its       *)
(* message queue one at a time, in the order sent.                         *)
(***************************************************************************)
ConcArgs ==
    {a \in CheckoutArgs({StaffId}, {0}, Lines({ProductA, ProductB}, Qtys)) : Len(a.items) = 1}

\* ipcRenderer.invoke("pos:checkout", args)
Invoke(args) ==
    /\ Len(pending) < MaxPending
    /\ pending' = Append(pending, args)
    /\ UNCHANGED <<db, call, reply, renderer, session>>

\* The main process takes the next message and runs its handler.
Dispatch ==
    /\ pending # <<>>
    /\ Idle
    /\ SalesLeft(MaxSales, Head(pending))
    /\ PosCheckout(Head(pending))
    /\ pending' = Tail(pending)
    /\ UNCHANGED <<renderer, session>>

NextConc ==
    \/ \E args \in ConcArgs : Invoke(args)
    \/ Dispatch
    \/ Deliver

SpecConc == Init /\ [][NextConc]_vars

(***************************************************************************)
(* SpecTill: one till.  A cashier edits the bill shown and clicks          *)
(* Pay & Save; the preload bridge sends the request, the main process      *)
(* handles the requests in arrival order, and the callback of each promise *)
(* runs when its reply is back.  The catalogue holds one product without   *)
(* GST, as the first product of the seed is, priced so that every amount   *)
(* on the page is whole: round-off then adds nothing and a split over two  *)
(* modes is exact.                                                         *)
(***************************************************************************)
TillItem == 4

TillDb ==
    [InitDb EXCEPT !.products = {[id |-> TillItem, mrp |-> 10, gst |-> 0, quantity |-> 4]}]

\* products, loaded once when the page mounts; a line of a bill holds its product.
Catalogued(id) == CHOOSE p \in TillDb.products : p.id = id

PaymentModes == {"cash", "upi"}
TillDiscounts == {0, 10}

\* activeBill = bills.find((b) => b.id === activeBillId) || bills[0]; with no
\* bill left the page has none to render.
HasBill(t) == t.bills # <<>>
ActiveBill(t) ==
    LET found == {i \in 1..Len(t.bills) : t.bills[i].id = t.activeBillId}
    IN IF found = {} THEN t.bills[1]
       ELSE t.bills[CHOOSE i \in found : \A j \in found : i <= j]

\* updateBill(id, updater); updater is a function on the bills of the list.
BillsOf(t) == {t.bills[i] : i \in 1..Len(t.bills)}
UpdateBill(bills, id, updater) ==
    [i \in 1..Len(bills) |-> IF bills[i].id = id THEN updater[bills[i]] ELSE bills[i]]

RECURSIVE BillSubtotal(_, _)
BillSubtotal(items, n) ==
    IF n = 0 THEN 0
    ELSE BillSubtotal(items, n - 1) + Catalogued(items[n].productId).mrp * items[n].qty

RECURSIVE BillTax(_, _)
BillTax(items, n) ==
    IF n = 0 THEN 0
    ELSE BillTax(items, n - 1)
         + (Catalogued(items[n].productId).mrp * items[n].qty
            * Catalogued(items[n].productId).gst) \div 100

TaxableBase(b) == Max(0, BillSubtotal(b.items, Len(b.items)) - b.billDiscount)

\* roundValue is 0 on a whole amount.
TotalPayable(b) == Max(0, TaxableBase(b) + BillTax(b.items, Len(b.items)))

SplitTotal(b) == b.cashAmt + b.upiAmt + b.cardAmt
Remaining(b) == Max(0, TotalPayable(b) - SplitTotal(b))

\* The body of the auto-balance effect.
AutoBalance(t) ==
    LET totalPayable == TotalPayable(ActiveBill(t))
        selected == t.selectedPayments
        perMode == totalPayable \div Cardinality(selected)
        Shared == [bill \in BillsOf(t) |->
                   [bill EXCEPT !.cashAmt = IF "cash" \in selected THEN perMode ELSE 0,
                                 !.upiAmt = IF "upi" \in selected THEN perMode ELSE 0,
                                 !.cardAmt = IF "card" \in selected THEN perMode ELSE 0]]
    IN IF totalPayable = 0 \/ selected = {} THEN t
       ELSE [t EXCEPT !.bills = UpdateBill(@, t.activeBillId, Shared)]

\* The page renders state t after an event: the effect runs if one of
\* totalPayable, selectedPayments (a new Set each time it is set) and
\* activeBillId is not what the last render had.
Render(t, selectionSet) ==
    IF ~HasBill(t) THEN t
    ELSE IF \/ selectionSet
            \/ ~HasBill(till)
            \/ t.activeBillId # till.activeBillId
            \/ TotalPayable(ActiveBill(t)) # TotalPayable(ActiveBill(till))
         THEN AutoBalance(t)
    ELSE t

AddOrInc(productId) ==
    LET Added == [bill \in BillsOf(till) |->
            LET idx == {i \in 1..Len(bill.items) : bill.items[i].productId = productId}
            IN IF idx = {}
               THEN [bill EXCEPT !.items = Append(@, [productId |-> productId, qty |-> 1])]
               ELSE [bill EXCEPT !.items[CHOOSE i \in idx : TRUE].qty = @ + 1]]
    IN /\ HasBill(till)
       /\ \A i \in 1..Len(ActiveBill(till).items) : ActiveBill(till).items[i].qty + 1 \in Qtys
       /\ till' = Render([till EXCEPT !.bills = UpdateBill(@, till.activeBillId, Added)], FALSE)
       /\ UNCHANGED <<db, call, reply, pending, mock, session>>

dec(productId) ==
    LET Less == [bill \in BillsOf(till) |->
            [bill EXCEPT !.items =
                SelectSeq([i \in 1..Len(@) |->
                              IF @[i].productId = productId THEN [@[i] EXCEPT !.qty = @ - 1]
                              ELSE @[i]],
                          LAMBDA x : x.qty > 0)]]
    IN /\ HasBill(till)
       /\ \E i \in 1..Len(ActiveBill(till).items) : ActiveBill(till).items[i].productId = productId
       /\ till' = Render([till EXCEPT !.bills = UpdateBill(@, till.activeBillId, Less)], FALSE)
       /\ UNCHANGED <<db, call, reply, pending, mock, session>>

\* onChange of the Discount input
SetBillDiscount(value) ==
    LET Discounted == [bill \in BillsOf(till) |-> [bill EXCEPT !.billDiscount = value]]
    IN /\ HasBill(till)
       /\ ActiveBill(till).billDiscount # value
       /\ till' = Render([till EXCEPT !.bills = UpdateBill(@, till.activeBillId, Discounted)], FALSE)
       /\ UNCHANGED <<db, call, reply, pending, mock, session>>

togglePaymentMode(mode) ==
    LET prev == till.selectedPayments
        next == IF mode \in prev
                THEN (IF Cardinality(prev) > 1 THEN prev \ {mode} ELSE prev)
                ELSE prev \cup {mode}
    IN /\ HasBill(till)
       /\ next # prev
       /\ till' = Render([till EXCEPT !.selectedPayments = next], TRUE)
       /\ UNCHANGED <<db, call, reply, pending, mock, session>>

\* Pay & Save is enabled unless the cart is empty or remaining > 0.01.
PayEnabled(b) == ~(Len(b.items) = 0 \/ Remaining(b) > 0)

\* What payAndSave passes to window.api.checkout.
PayArgs(b) ==
    [createdBy |-> StaffId,
     discount |-> b.billDiscount,
     paymentSplit |-> [cashAmt |-> b.cashAmt, upiAmt |-> b.upiAmt, cardAmt |-> b.cardAmt],
     items |-> b.items]

\* What the callback of the promise closes over: activeBillId and bills of
\* the render in which the button was clicked.
Closure(t) ==
    [activeBillId |-> t.activeBillId, billIds |-> [i \in 1..Len(t.bills) |-> t.bills[i].id]]

\* payAndSave, with a cashier signed in who answers the confirm dialog with OK.
\* The model lets the page send MaxSales requests in all.
payAndSave ==
    /\ HasBill(till)
    /\ PayEnabled(ActiveBill(till))
    /\ Len(ActiveBill(till).items) # 0
    /\ Len(pending) < MaxPending
    /\ Cardinality(db.transactions) + Len(pending) < MaxSales
    /\ pending' = Append(pending, PayArgs(ActiveBill(till)))
    /\ till' = [till EXCEPT !.sent = Append(@, Closure(till))]
    /\ UNCHANGED <<db, call, reply, mock, session>>

\* createNewBill, called from a render whose bills had the ids billIds.
createNewBill(t, billIds) ==
    LET newId == 1 + CHOOSE m \in {billIds[i] : i \in 1..Len(billIds)} :
                        \A i \in 1..Len(billIds) : billIds[i] <= m
    IN [t EXCEPT !.bills = Append(@, NewBill(newId)),
                 !.activeBillId = newId,
                 !.selectedPayments = {"cash"}]

\* The .then callback of the oldest request, run with the reply to it.
Settle ==
    /\ ~Idle
    /\ till.sent # <<>>
    /\ LET c == Head(till.sent)
           left == [till EXCEPT !.sent = Tail(@)]
           removed == [left EXCEPT !.bills = SelectSeq(@, LAMBDA b : b.id # c.activeBillId)]
       IN till' = IF ~reply.success THEN left
                  ELSE IF Len(c.billIds) = 1
                       THEN Render(createNewBill(removed, c.billIds), TRUE)
                  ELSE Render([removed EXCEPT !.activeBillId =
                                  IF c.billIds[1] = c.activeBillId THEN c.billIds[2]
                                  ELSE c.billIds[1]],
                              FALSE)
    /\ call' = NoCall
    /\ reply' = ok(<<>>)
    /\ UNCHANGED <<db, pending, mock, session>>

InitTillSpec ==
    /\ db = TillDb
    /\ call = NoCall
    /\ reply = ok(<<>>)
    /\ pending = <<>>
    /\ till = InitTill
    /\ mock = InitMock
    /\ InitRest

NextTill ==
    \/ AddOrInc(TillItem)
    \/ dec(TillItem)
    \/ \E value \in TillDiscounts : SetBillDiscount(value)
    \/ \E mode \in PaymentModes : togglePaymentMode(mode)
    \/ payAndSave
    \/ Dispatch
    \/ Settle

SpecTill == InitTillSpec /\ [][NextTill]_vars

(***************************************************************************)
(* SpecTabs: the bill tabs of the POS page.  The cashier opens, cancels    *)
(* and switches bills and pays them; a button handler runs in the render   *)
(* it was clicked in, the callback of a checkout in the one it was sent    *)
(* from.                                                                   *)
(***************************************************************************)
BillIds(t) == [i \in 1..Len(t.bills) |-> t.bills[i].id]

\* The model lets a button open a bill while the ids shown are below MaxBills.
IdsLeft(t) == \A i \in 1..Len(t.bills) : t.bills[i].id < MaxBills

\* onClick of a product card, on a bill that is still empty.
StartBill ==
    /\ HasBill(till)
    /\ Len(ActiveBill(till).items) = 0
    /\ AddOrInc(TillItem)

\* onClick={createNewBill}
NewBillClicked ==
    /\ HasBill(till)
    /\ IdsLeft(till)
    /\ till' = Render(createNewBill(till, BillIds(till)), TRUE)
    /\ UNCHANGED <<db, call, reply, pending, mock, session>>

cancelCurrentBill ==
    LET removed == [till EXCEPT !.bills = SelectSeq(@, LAMBDA b : b.id # till.activeBillId)]
    IN /\ HasBill(till)
       /\ Len(till.bills) = 1 => IdsLeft(till)
       /\ till' = IF Len(till.bills) = 1
                  THEN Render(createNewBill(removed, BillIds(till)), TRUE)
                  ELSE Render([removed EXCEPT
                                  !.activeBillId =
                                      IF till.bills[1].id = till.activeBillId
                                      THEN till.bills[2].id ELSE till.bills[1].id,
                                  !.selectedPayments = {"cash"}],
                              TRUE)
       /\ UNCHANGED <<db, call, reply, pending, mock, session>>

\* onClick={() => setActiveBillId(b.id)} of a tab
SelectTab(i) ==
    /\ i \in 1..Len(till.bills)
    /\ till.bills[i].id # till.activeBillId
    /\ till' = Render([till EXCEPT !.activeBillId = till.bills[i].id], FALSE)
    /\ UNCHANGED <<db, call, reply, pending, mock, session>>

NextTabs ==
    \/ StartBill
    \/ NewBillClicked
    \/ cancelCurrentBill
    \/ \E i \in 1..(MaxBills + MaxSales) : SelectTab(i)
    \/ payAndSave
    \/ Dispatch
    \/ Settle

SpecTabs == InitTillSpec /\ [][NextTabs]_vars

(***************************************************************************)
(* SpecTotals: the totals of the POS page against those of the checkout.   *)
(* The page holds one bill, with any of the carts, discounts and round-off *)
(* flags below, and sends it.  Amounts of this specification are counted   *)
(* in half rupees, so that a tax of 0.50 is in reach: the one product      *)
(* costs 10.00 and has 5 % GST.  On multiples of 0.50 binary64 arithmetic  *)
(* is exact.                                                               *)
(***************************************************************************)
HalfItem == 5

HalfDb ==
    [InitDb EXCEPT !.products = {[id |-> HalfItem, mrp |-> 20, gst |-> 5, quantity |-> 4]}]

RECURSIVE PageSubtotal(_, _, _)
PageSubtotal(d, items, n) ==
    IF n = 0 THEN 0
    ELSE PageSubtotal(d, items, n - 1)
         + (CHOOSE p \in d.products : p.id = items[n].productId).mrp * items[n].qty

RECURSIVE PageTax(_, _, _)
PageTax(d, items, n) ==
    IF n = 0 THEN 0
    ELSE LET p == CHOOSE x \in d.products : x.id = items[n].productId
         IN PageTax(d, items, n - 1) + (p.mrp * items[n].qty * p.gst) \div 100

\* Math.round(total) of an amount counted in half rupees: the nearest whole
\* rupee, the upper one from a half.
MathRound(total) == 2 * ((total + 1) \div 2)

roundValue(total, roundOff) == IF ~roundOff THEN 0 ELSE MathRound(total) - total

\* totalPayable of the bill b, with the products d.products loaded.
totalPayable(d, b) ==
    LET taxableBase == Max(0, PageSubtotal(d, b.items, Len(b.items)) - b.billDiscount)
        total == taxableBase + PageTax(d, b.items, Len(b.items))
    IN Max(0, total + roundValue(total, b.roundOff))

TotalsDiscounts == {-2, 0, 3, 100}

\* The bills of the page: the payment is in cash, set by the auto-balance effect.
TotalsBills ==
    {[b EXCEPT !.cashAmt = totalPayable(HalfDb, b)] :
        b \in [id : {1}, items : Carts(Lines({HalfItem}, 1..2)) \ {<<>>},
               billDiscount : TotalsDiscounts, roundOff : BOOLEAN,
               cashAmt : {0}, upiAmt : {0}, cardAmt : {0}]}

InitTotals ==
    /\ db = HalfDb
    /\ call = NoCall
    /\ reply = ok(<<>>)
    /\ pending = <<>>
    /\ \E b \in TotalsBills : till = [InitTill EXCEPT !.bills = <<b>>]
    /\ mock = InitMock
    /\ InitRest

\* window.api.checkout of payAndSave, awaited.
Charge ==
    /\ SalesLeft(MaxSales, PayArgs(ActiveBill(till)))
    /\ PosCheckout(PayArgs(ActiveBill(till)))
    /\ UNCHANGED <<pending, renderer, session>>

NextTotals ==
    \/ Charge
    \/ Deliver

SpecTotals == InitTotals /\ [][NextTotals]_vars

(***************************************************************************)
(* Properties.                                                             *)
(***************************************************************************)
\* This step is the pos:checkout handler running, on a request with these args.
CheckoutStep == Idle /\ call'.channel = "pos:checkout"
CheckoutFailed == call.channel = "pos:checkout" /\ ~reply.success
CheckoutSucceeded == call.channel = "pos:checkout" /\ reply.success

Quantity(d, id) == (CHOOSE p \in d.products : p.id = id).quantity

\* The quantity a cart asks of product id, over all its lines.
RECURSIVE Requested(_, _, _)
Requested(items, id, n) ==
    IF n = 0 THEN 0
    ELSE Requested(items, id, n - 1) + (IF items[n].productId = id THEN items[n].qty ELSE 0)

\* The quantity of product id recorded as sold: the sum over its transaction_items.
RECURSIVE SumQuantity(_)
SumQuantity(rows) ==
    IF rows = {} THEN 0
    ELSE LET r == CHOOSE x \in rows : TRUE IN r.quantity + SumQuantity(rows \ {r})

Sold(d, id) == SumQuantity({i \in d.transaction_items : i.productId = id})

PolicyEnabled(d) == \E r \in d.store_settings : r.allowNegativeStock

\* C1. Atomicity: a pos:checkout call that fails, whatever made it fail, leaves
\* every table (transactions, receipts, transaction_items, product_logs), every
\* product's quantity and the AUTOINCREMENT counters as they were before the call.
C1_Atomicity == [][(CheckoutStep /\ ~reply'.success) => db' = db]_vars

\* A two-line checkout has failed on the receipts insert, after the transactions
\* row of the same call had been inserted.
C1_Witness ==
    /\ CheckoutFailed
    /\ reply.error = PkFailed
    /\ Len(call.args.items) = 2
    /\ db.transactions = {}


\* C2. Stock conservation: a successful checkout lowers the quantity of every
\* product by the total quantity the cart asks of it, summed over all the lines
\* naming it, and leaves the products that are not in the cart alone.
C2_StockConservation ==
    [][(CheckoutStep /\ reply'.success) =>
          \A p \in db.products :
              Quantity(db', p.id) =
                  p.quantity - Requested(call'.args.items, p.id, Len(call'.args.items))]_vars

\* C3. No over-sell: while the negative-stock policy is disabled no product's
\* quantity is below zero and the quantity recorded as sold for a product, over
\* all its transaction_items, is at most the stock the product had.
C3_NoOverSell ==
    ~PolicyEnabled(db) =>
        \A p \in db.products :
            /\ p.quantity >= 0
            /\ Sold(db, p.id) <= Quantity(InitDb, p.id)

\* The lines of the cart all name a product that exists, with a quantity above 0.
LinesWellFormed(d, items) ==
    \A i \in 1..Len(items) : items[i].qty > 0 /\ ProductById(d, items[i].productId) # {}

ExceedsStock(d, it) == it.qty > Quantity(d, it.productId)

\* Nothing but the stock can make this checkout fail.
OnlyStockAtIssue(d, args) ==
    /\ args.createdBy \in Ids(d.users)
    /\ d.seq.transactions + 1 \notin Ids(d.receipts)
    /\ LinesWellFormed(d, args.items)
    /\ \E i \in 1..Len(args.items) : ExceedsStock(d, args.items[i])

\* C5. Negative-stock policy: a checkout with a line whose quantity exceeds the
\* stock is rejected with the insufficient-stock error while the store's
\* allowNegativeStock is off, and is accepted, driving the stock below zero, while
\* it is on.
C5_NegativeStockPolicy ==
    [][(CheckoutStep /\ OnlyStockAtIssue(db, call'.args)) =>
          IF PolicyEnabled(db)
          THEN reply'.success /\ \E p \in db'.products : p.quantity < 0
          ELSE ~reply'.success /\ reply'.error.msg = "Insufficient stock"]_vars

ActiveUser(d, id) == \E u \in d.users : u.id = id /\ u.active

\* C6. Operator precondition: a checkout whose createdBy names no user, or a user
\* that is disabled, fails and writes nothing.  (Stated for the carts that hold a
\* line: the empty cart is C7's.)
C6_OperatorPrecondition ==
    [][(CheckoutStep /\ call'.args.items # <<>> /\ ~ActiveUser(db, call'.args.createdBy)) =>
          (~reply'.success /\ db' = db)]_vars

\* C7. Empty cart: a checkout with no items fails and creates no row.
C7_EmptyCart ==
    [][(CheckoutStep /\ call'.args.items = <<>>) => (~reply'.success /\ db' = db)]_vars

\* What a successful checkout has written: the line items of the transaction the
\* reply names, and the log rows of its receipt.
ItemsOf(d, res) == {i \in d.transaction_items : i.transactionId = res.transactionId}
LogsOf(d, res) == {l \in d.product_logs : l.receiptId = res.receiptId}

RECURSIVE SumAmount(_)
SumAmount(rows) ==
    IF rows = {} THEN 0
    ELSE LET r == CHOOSE x \in rows : TRUE IN r.amount + SumAmount(rows \ {r})

RECURSIVE SumTaxOf(_)
SumTaxOf(rows) ==
    IF rows = {} THEN 0
    ELSE LET r == CHOOSE x \in rows : TRUE IN r.tax + SumTaxOf(rows \ {r})

\* The subtotal of a cart at the catalogue's prices.
RECURSIVE CartSubtotal(_, _, _)
CartSubtotal(d, items, n) ==
    IF n = 0 THEN 0
    ELSE CartSubtotal(d, items, n - 1)
         + (CHOOSE p \in d.products : p.id = items[n].productId).mrp * items[n].qty

\* C8. Totals: after a successful checkout every persisted line has amount = mrp
\* x quantity and tax = amount x gst / 100, the line amounts sum to the cart's
\* subtotal, the returned tax is the sum of the line taxes and the returned
\* totalAmount is max(0, subtotal - applied discount + tax).
C8_Totals ==
    [][(CheckoutStep /\ reply'.success) =>
          LET res == reply'.data
              lines == ItemsOf(db', res)
              subtotal == SumAmount(lines)
          IN /\ Cardinality(lines) = Len(call'.args.items)
             /\ \A i \in lines :
                    \E p \in db.products :
                        /\ p.id = i.productId
                        /\ i.unitPrice = p.mrp
                        /\ i.amount = p.mrp * i.quantity
                        /\ 100 * i.tax = i.amount * p.gst
             /\ subtotal = CartSubtotal(db, call'.args.items, Len(call'.args.items))
             /\ res.tax = SumTaxOf(lines)
             /\ res.totalAmount = Max(0, subtotal - res.discount + res.tax)]_vars

\* The second example of the specification: one unit at 100 with 12% tax and a
\* discount of 10 has been sold for 102.
C8_Witness ==
    /\ CheckoutSucceeded
    /\ call.args.items = <<[productId |-> ProductB, qty |-> 1]>>
    /\ call.args.discount = 10
    /\ reply.data.tax = 12
    /\ reply.data.discount = 10
    /\ reply.data.totalAmount = 102

\* Every line passes the checks of the pricing stage.
LinesInStock(d, items) ==
    LinesWellFormed(d, items) /\ \A i \in 1..Len(items) : ~ExceedsStock(d, items[i])

\* C9. Discount clamp: the discount a checkout applies, stores (in the transactions
\* and the receipts row) and returns is min(max(d, 0), subtotal) of the requested d,
\* it lies between 0 and the subtotal, and no requested discount makes a checkout
\* fail whose lines are in stock.
C9_DiscountClamp ==
    [][CheckoutStep =>
          LET a == call'.args
              res == reply'.data
              subtotal == CartSubtotal(db, a.items, Len(a.items))
              applied == Min(Max(a.discount, 0), subtotal)
          IN /\ LinesInStock(db, a.items) => reply'.success
             /\ reply'.success =>
                    /\ res.discount = applied
                    /\ 0 <= res.discount /\ res.discount <= subtotal
                    /\ \E t \in db'.transactions :
                           t.id = res.transactionId /\ t.discount = applied
                    /\ \E r \in db'.receipts :
                           r.id = res.receiptId /\ r.discount = applied]_vars

\* The fifth example of the specification: a discount of 500 was requested against
\* a subtotal of 100, 100 was applied and the total is the tax.
C9_Witness ==
    /\ CheckoutSucceeded
    /\ call.args.items = <<[productId |-> ProductB, qty |-> 1]>>
    /\ call.args.discount = 500
    /\ reply.data.discount = 100
    /\ reply.data.totalAmount = 12

\* The position of a row among the rows of its sale, in insertion order.
Rank(row, rows) == Cardinality({x \in rows : x.id <= row.id})

\* The largest number of bits after the binary point among the inexact line
\* discounts of a sale.
RECURSIVE MaxPos(_)
MaxPos(rows) ==
    IF rows = {} THEN 0
    ELSE LET r == CHOOSE x \in rows : TRUE
         IN Max(IF r.discount.e = 0 THEN 0 ELSE r.discount.pos, MaxPos(rows \ {r}))

\* By how much the stored line discounts of a sale, added up, differ from the
\* sum of the quotients they round, in units of 1 / (subtotal * 2^P).
RECURSIVE DriftSum(_, _, _)
DriftSum(rows, subtotal, P) ==
    IF rows = {} THEN 0
    ELSE LET r == CHOOSE x \in rows : TRUE
             x == r.discount
         IN (IF x.e = 0 THEN 0 ELSE x.e * (subtotal \div x.d) * 2^(P - x.pos))
            + DriftSum(rows \ {r}, subtotal, P)

\* Each line item of the sale carries discount x amount / subtotal (0 when the
\* subtotal is 0) and the log row written with it carries the same value.
Proportional(d, res) ==
    LET lines == ItemsOf(d, res)
        logs == LogsOf(d, res)
        subtotal == SumAmount(lines)
    IN /\ Cardinality(logs) = Cardinality(lines)
       /\ \A i \in lines :
              /\ i.discount = IF subtotal > 0 THEN Div(res.discount * i.amount, subtotal)
                              ELSE Zero
              /\ \E l \in logs : /\ Rank(l, logs) = Rank(i, lines)
                                 /\ l.productId = i.productId
                                 /\ l.discount = i.discount

\* C10 as stated.  Proportional allocation: every line's discount is discount x
\* lineGross / subtotal (0 when the subtotal is 0), written alike to the line
\* item and to its log row, and the stored line discounts of a sale sum to the
\* applied discount.
C10_ExactAllocation ==
    [][(CheckoutStep /\ reply'.success) =>
          LET res == reply'.data
              lines == ItemsOf(db', res)
              subtotal == SumAmount(lines)
          IN /\ Proportional(db', res)
             /\ subtotal > 0 => DriftSum(lines, subtotal, MaxPos(lines)) = 0]_vars

Abs(x) == IF x < 0 THEN 0 - x ELSE x

\* C10, amended.  Every line's discount is the binary64 quotient discount x
\* lineGross / subtotal (0 when the subtotal is 0), written alike to the line
\* item and to its log row, and the stored line discounts of a sale sum to the
\* applied discount up to the rounding of the divisions: the sum differs from
\* the applied discount by less than 2^-20 (under 1e-6) of the subtotal.
C10_Allocation ==
    [][(CheckoutStep /\ reply'.success) =>
          LET res == reply'.data
              lines == ItemsOf(db', res)
              subtotal == SumAmount(lines)
              P == MaxPos(lines)
              drift == DriftSum(lines, subtotal, P)
          IN /\ Proportional(db', res)
             /\ subtotal > 0 =>
                    \/ drift = 0
                    \/ P >= 30 /\ Abs(drift) <= subtotal * subtotal * 2^10]_vars

\* A sale of two lines (gross 100 and 200) with a discount of 10 has been stored:
\* its line discounts are the doubles nearest 10/3 and 20/3, neither of them
\* equal to the quotient it rounds.
C10_Witness ==
    /\ CheckoutSucceeded
    /\ reply.data.discount = 10
    /\ Cardinality(ItemsOf(db, reply.data)) = 2
    /\ \A i \in ItemsOf(db, reply.data) : i.discount.e # 0 /\ i.discount.d = 3

(***************************************************************************)
(* Checkouts sent while another is in flight (SpecConc).                   *)
(***************************************************************************)
\* C4. Checkouts are serialized: each checkout on a product checks the stock the
\* checkouts before it left and, when it succeeds, takes its quantity off that
\* stock; one that asks for more than is left fails with "Insufficient stock"
\* and changes nothing, so the stock never falls below zero and stock plus sold
\* quantity stays what the product started with.
C4_Serialized ==
    [][CheckoutStep =>
          LET it == call'.args.items[1]
              left == Quantity(db, it.productId)
          IN /\ (it.qty > 0 /\ it.qty <= left) =>
                    /\ reply'.success
                    /\ Quantity(db', it.productId) = left - it.qty
             /\ it.qty > left =>
                    /\ ~reply'.success
                    /\ reply'.error = Err("Insufficient stock", it.productId)
                    /\ db' = db
             /\ \A p \in db'.products :
                    /\ p.quantity >= 0
                    /\ p.quantity + Sold(db', p.id) = Quantity(InitDb, p.id)]_vars

\* One unit of ProductB was left and two single-unit requests for it were sent:
\* the first has taken the unit while the second still waits to be handled.
C4_Witness ==
    /\ CheckoutSucceeded
    /\ call.args.items = <<[productId |-> ProductB, qty |-> 1]>>
    /\ Quantity(db, ProductB) = 0
    /\ Sold(db, ProductB) = 2
    /\ Len(pending) = 1
    /\ Head(pending).items = <<[productId |-> ProductB, qty |-> 1]>>

(***************************************************************************)
(* The rows of one sale.                                                   *)
(***************************************************************************)
\* C11. Record counts: a successful checkout adds exactly one transactions row,
\* one transaction_items row per cart line and one product_logs row per new
\* transaction_items row, that log row having type 'sale' and the product,
\* quantity, amount, tax and discount of its line item; a failed checkout adds
\* no row to any of the three tables.
C11_RecordCounts ==
    [][CheckoutStep =>
          LET sales == db'.transactions \ db.transactions
              lines == db'.transaction_items \ db.transaction_items
              logs == db'.product_logs \ db.product_logs
          IN IF reply'.success
             THEN /\ Cardinality(sales) = 1
                  /\ Cardinality(lines) = Len(call'.args.items)
                  /\ Cardinality(logs) = Cardinality(lines)
                  /\ \A i \in lines :
                         /\ i.transactionId \in Ids(sales)
                         /\ \E l \in logs :
                                /\ Rank(l, logs) = Rank(i, lines)
                                /\ l.type = "sale"
                                /\ l.productId = i.productId
                                /\ l.quantity = i.quantity
                                /\ l.amount = i.amount
                                /\ l.tax = i.tax
                                /\ l.discount = i.discount
             ELSE sales = {} /\ lines = {} /\ logs = {}]_vars

\* A sale of two lines has been stored with its two line items and two log rows,
\* and a later checkout has failed.
C11_Witness ==
    /\ CheckoutFailed
    /\ \E t \in db.transactions :
           /\ Cardinality({i \in db.transaction_items : i.transactionId = t.id}) = 2
           /\ Cardinality({l \in db.product_logs : l.receiptId = t.id}) = 2
           /\ t.discount > 0

\* C12. Read-after-write: right after a successful checkout the transactions
\* row with the returned transactionId (there is exactly one) has finalAmount,
\* tax and discount equal to the returned totalAmount, tax and discount.
C12_ReadAfterWrite ==
    [][(CheckoutStep /\ reply'.success) =>
          LET res == reply'.data
              found == {t \in db'.transactions : t.id = res.transactionId}
          IN /\ Cardinality(found) = 1
             /\ \A t \in found : /\ t.finalAmount = res.totalAmount
                                 /\ t.tax = res.tax
                                 /\ t.discount = res.discount]_vars

\* A sale with tax and a clamped discount has just been returned: the total (12)
\* differs from the subtotal (100) and from the discount requested (500).
C12_Witness ==
    /\ CheckoutSucceeded
    /\ call.args.discount = 500
    /\ reply.data.totalAmount = 12
    /\ \E t \in db.transactions :
           t.id = reply.data.transactionId /\ t.finalAmount = 12 /\ t.discount = 100

PricingErrors == {"Product not found", "Invalid quantity", "Insufficient stock"}

\* C13. Fail-fast validation: when any line of the cart, at any position, names
\* no product, has a quantity <= 0 or asks more than the stock, the error
\* raised is a pricing error and the body of the checkout has written nothing
\* at the moment it throws: the database it leaves for the rollback is the
\* database the call began with.
C13_FailFast ==
    [][(CheckoutStep /\ ~LinesInStock(db, call'.args.items)) =>
          /\ ReceiptBody(db, EngineArgs(call'.args, Epoch)).db = db
          /\ ~reply'.success
          /\ reply'.error.msg \in PricingErrors]_vars

\* A checkout has failed on its second line; its first line was in order, and
\* its operator exists.
C13_Witness ==
    /\ CheckoutFailed
    /\ Len(call.args.items) = 2
    /\ call.args.createdBy = StaffId
    /\ LinesInStock(db, <<call.args.items[1]>>)
    /\ reply.error = Err("Product not found", GhostProductId)

\* C17. Error propagation: the reply of a pos:checkout call says success exactly
\* when that call committed a sale (a new transactions row, the one the reply
\* names); every cause of failure (a line that fails pricing, an operator with
\* no users row, a receipts id already taken) yields, in the same call, a reply
\* with success = false and an error, and leaves the database as it was; an
\* insufficient-stock error names a product of the cart whose line exceeds the
\* stock.
C17_ErrorPropagation ==
    [][CheckoutStep =>
          LET a == call'.args
              sales == db'.transactions \ db.transactions
          IN /\ reply'.success <=> sales # {}
             /\ reply'.success => reply'.data.transactionId \in Ids(sales)
             /\ ~reply'.success => reply'.error # NoError /\ db' = db
             /\ ( \/ ~LinesInStock(db, a.items)
                  \/ a.createdBy \notin Ids(db.users)
                  \/ NextId(db, "transactions") \in Ids(db.receipts) ) => ~reply'.success
             /\ OnlyStockAtIssue(db, a) => reply'.error.msg = "Insufficient stock"
             /\ reply'.error.msg = "Insufficient stock" =>
                    \E i \in 1..Len(a.items) : /\ a.items[i].productId = reply'.error.ref
                                               /\ ExceedsStock(db, a.items[i])]_vars

\* After a sale has taken two of the three units of ProductA, a request for two
\* more has been answered with the insufficient-stock error naming ProductA.
C17_Witness ==
    /\ CheckoutFailed
    /\ reply.error = Err("Insufficient stock", ProductA)
    /\ Quantity(db, ProductA) = 1
    /\ db.transactions # {}

\* C18. Line order: the transaction_items rows and the product_logs rows of one
\* checkout are inserted in the order of the request's items list: the k-th new
\* row of either table, by id, is the one for the k-th line of the cart.
C18_LineOrder ==
    [][(CheckoutStep /\ reply'.success) =>
          LET items == call'.args.items
              lines == db'.transaction_items \ db.transaction_items
              logs == db'.product_logs \ db.product_logs
          IN \A k \in 1..Len(items) :
                 /\ \E i \in lines : /\ Rank(i, lines) = k
                                     /\ i.productId = items[k].productId
                                     /\ i.quantity = items[k].qty
                 /\ \E l \in logs : /\ Rank(l, logs) = k
                                    /\ l.productId = items[k].productId
                                    /\ l.quantity = items[k].qty]_vars

\* A cart of two different lines, the free product first and the priced one
\* second, has been sold.
C18_Witness ==
    /\ CheckoutSucceeded
    /\ call.args.items = <<[productId |-> FreeItem, qty |-> 1], [productId |-> ProductB, qty |-> 2]>>
    /\ Cardinality(ItemsOf(db, reply.data)) = 2

(***************************************************************************)
(* The legacy receipt and the payment split (SpecReceipt).                 *)
(***************************************************************************)
\* C19. Legacy receipt kept in sync: a checkout writes a transactions row and a
\* receipts row together or neither; after a successful one the receipts row
\* with the new transaction's id (the returned receiptId) has the totalAmount,
\* tax, discount, payment split, date and createdBy of the transactions row,
\* and the product_logs rows of the sale carry that receipt id.
C19_LegacyReceipt ==
    [][CheckoutStep =>
          LET sales == db'.transactions \ db.transactions
              legacy == db'.receipts \ db.receipts
              logs == db'.product_logs \ db.product_logs
          IN /\ Ids(legacy) = Ids(sales)
             /\ reply'.success =>
                    /\ Cardinality(sales) = 1 /\ Cardinality(legacy) = 1
                    /\ reply'.data.receiptId = reply'.data.transactionId
                    /\ reply'.data.receiptId \in Ids(legacy)
                    /\ \A t \in sales, r \in legacy :
                           /\ r.totalAmount = t.finalAmount
                           /\ r.tax = t.tax
                           /\ r.discount = t.discount
                           /\ r.paymentSplit = t.paymentSplit
                           /\ r.receiptDate = t.transactionDate
                           /\ r.createdBy = t.createdBy
                    /\ Cardinality(logs) = Len(call'.args.items)
                    /\ \A l \in logs : l.receiptId = reply'.data.receiptId]_vars

\* Two sales made at different instants are stored, each with its receipt, and
\* the later one has two log rows.
C19_Witness ==
    /\ CheckoutSucceeded
    /\ Cardinality(db.receipts) = 2
    /\ \E t1, t2 \in db.transactions : t1.transactionDate # t2.transactionDate
    /\ Cardinality(LogsOf(db, reply.data)) = 2

\* C16. Payment split validity: every transactions row, and the receipts row
\* written with it, carries a payment split of exactly the three amounts
\* cashAmt, upiAmt and cardAmt, each of them >= 0.
C16_PaymentSplitValid ==
    \A row \in db.transactions \cup {r \in db.receipts : r.id \in Ids(db.transactions)} :
        /\ DOMAIN row.paymentSplit = {"cashAmt", "upiAmt", "cardAmt"}
        /\ \A f \in DOMAIN row.paymentSplit : row.paymentSplit[f] >= 0

(***************************************************************************)
(* The ledger under the deleting handlers (SpecArchive).                   *)
(***************************************************************************)
\* C15. Append-only ledger: no step of any handler changes or removes a
\* transactions row or a transaction_items row that is stored.
C15_AppendOnly ==
    [][/\ db.transactions \subseteq db'.transactions
       /\ db.transaction_items \subseteq db'.transaction_items]_vars

\* A sale of two lines is stored of which only one line item is left: the
\* other went with its product.
C15_LinesLost ==
    \E t \in db.transactions :
        /\ Cardinality({l \in db.product_logs : l.receiptId = t.id}) = 1
        /\ Cardinality({i \in db.transaction_items : i.transactionId = t.id}) = 1
        /\ t.finalAmount = 117

(***************************************************************************)
(* C14.  One checkout in flight per till: the page does not have two       *)
(* checkout requests outstanding at once; while a request is unanswered,   *)
(* Pay & Save does not send another.                                       *)
(***************************************************************************)
C14_OneInFlight == Len(till.sent) <= 1

\* One bill was completed on the page and two sales of it are stored.
C14_SoldTwice ==
    /\ till.sent = <<>>
    /\ Cardinality(db.transactions) = 2
    /\ \A t \in db.transactions : t.finalAmount = 10
    /\ Cardinality(db.product_logs) = 2
    /\ Quantity(db, TillItem) = Quantity(TillDb, TillItem) - 2
    /\ \E i \in 1..Len(till.bills) : till.bills[i].id = 2
    /\ \A i \in 1..Len(till.bills) : till.bills[i].id = 2 /\ till.bills[i].items = <<>>

(***************************************************************************)
(* C20.  Payment reconciliation in the UI: the split the page sends with a *)
(* checkout request adds up to the total payable of the bill it sends.     *)
(***************************************************************************)
C20_SplitReconciled ==
    [][Len(pending') > Len(pending) =>
          LET args == pending'[Len(pending')]
              split == args.paymentSplit
          IN split.cashAmt + split.upiAmt + split.cardAmt = TotalPayable(ActiveBill(till))]_vars

\* A request is in flight for a bill that costs nothing, with 10 in cash.
C20_PaidForNothing ==
    /\ pending # <<>>
    /\ Head(pending).paymentSplit.cashAmt = 10
    /\ Head(pending).discount = 10
    /\ Head(pending).items = <<[productId |-> TillItem, qty |-> 1]>>

(***************************************************************************)
(* C21.  products:delete is a soft delete: when products:delete succeeds   *)
(* for a product, the line items and the audit log rows of the past sales  *)
(* of that product are still stored afterwards.                            *)
(***************************************************************************)
C21_SoftDelete ==
    [][(Idle /\ call'.channel = "products:delete" /\ reply'.success) =>
          /\ {i \in db.transaction_items : i.productId = call'.args.id}
                 \subseteq db'.transaction_items
          /\ {l \in db.product_logs : l.productId = call'.args.id} \subseteq db'.product_logs]_vars

\* products:delete has just succeeded for a product that was sold alone: the
\* sale is stored with an amount and has no line item and no log row.
C21_SaleEmptied ==
    /\ call.channel = "products:delete"
    /\ reply.success
    /\ ProductById(db, call.args.id) = {}
    /\ \E t \in db.transactions :
           /\ t.finalAmount = 5
           /\ {i \in db.transaction_items : i.transactionId = t.id} = {}
           /\ {l \in db.product_logs : l.receiptId = t.id} = {}

(***************************************************************************)
(* C22.  Validation order: the lines of the cart are examined in caller    *)
(* order and, on a line, the product's existence is checked first, then    *)
(* qty > 0, then the stock; when several lines or several checks would     *)
(* fail, the checkout fails with the error of the first failing check of   *)
(* the first failing line.                                                 *)
(***************************************************************************)
NoSuchProduct(d, it) == ProductById(d, it.productId) = {}
BadQuantity(it) == it.qty <= 0
OverStock(d, it) == ~NoSuchProduct(d, it) /\ Quantity(d, it.productId) < it.qty
Failing(d, items) ==
    {i \in 1..Len(items) :
        NoSuchProduct(d, items[i]) \/ BadQuantity(items[i]) \/ OverStock(d, items[i])}

C22_ValidationOrder ==
    [][(CheckoutStep /\ Failing(db, call'.args.items) # {}) =>
          LET items == call'.args.items
              first == CHOOSE i \in Failing(db, items) : \A j \in Failing(db, items) : i <= j
              it == items[first]
          IN /\ ~reply'.success
             /\ reply'.error =
                    IF NoSuchProduct(db, it) THEN Err("Product not found", it.productId)
                    ELSE IF BadQuantity(it) THEN Err("Invalid quantity", 0)
                    ELSE Err("Insufficient stock", it.productId)]_vars

\* A checkout has failed with "Invalid quantity": its first line fails the
\* quantity check and the stock check, its second line names no product.
C22_Witness ==
    /\ CheckoutFailed
    /\ Len(call.args.items) = 2
    /\ BadQuantity(call.args.items[1]) /\ OverStock(db, call.args.items[1])
    /\ NoSuchProduct(db, call.args.items[2])
    /\ reply.error = Err("Invalid quantity", 0)

(***************************************************************************)
(* C23.  Checkout stays available: in every reachable state a checkout     *)
(* with an operator that exists, a cart that is not empty and lines that   *)
(* are all in stock succeeds; the receipts row it inserts with the id of   *)
(* the transaction never collides with a row that receipts:add created.    *)
(***************************************************************************)
C23_CheckoutAvailable ==
    [][(/\ CheckoutStep
        /\ call'.args.createdBy \in Ids(db.users)
        /\ call'.args.items # <<>>
        /\ LinesInStock(db, call'.args.items)) => reply'.success]_vars

\* A checkout in order has failed on the primary key of receipts; no sale is
\* stored, so the next transaction id is again the id receipts:add has taken.
C23_Blocked ==
    /\ CheckoutFailed
    /\ reply.error = PkFailed
    /\ call.args.createdBy \in Ids(db.users)
    /\ call.args.items # <<>>
    /\ LinesInStock(db, call.args.items)
    /\ db.transactions = {}
    /\ NextId(db, "transactions") \in Ids(db.receipts)

(***************************************************************************)
(* C24.  The browser fallback checkout and the Electron checkout are       *)
(* equivalent: started from the same users and products and given the same *)
(* request, both succeed or both fail, and on success they return the same *)
(* totalAmount, tax and discount, leave the same quantity on every product *)
(* and write the same sale log rows.                                       *)
(***************************************************************************)
\* The sale log rows a checkout has added, without the ids the build gave.
SaleLogs(before, after) ==
    {[productId |-> l.productId, type |-> l.type, quantity |-> l.quantity,
      amount |-> l.amount, tax |-> l.tax, discount |-> l.discount] : l \in after \ before}

C24_MockEquivalent ==
    [][(CheckoutStep /\ mock.users = db.users /\ mock.products = db.products) =>
          LET m == checkout(mock, call'.args)
          IN /\ reply'.success <=> m.error = NoError
             /\ reply'.success =>
                    /\ reply'.data.totalAmount = m.value.totalAmount
                    /\ reply'.data.tax = m.value.tax
                    /\ reply'.data.discount = m.value.discount
                    /\ db'.products = m.db.products
                    /\ SaleLogs(db.product_logs, db'.product_logs)
                           = SaleLogs(mock.logs, m.db.logs)]_vars

\* The same cart, two lines of quantity 2 of one product, was sold by both
\* builds from a stock of 3: one build has 1 left, the other is at -1.
C24_QuantitiesApart ==
    /\ CheckoutSucceeded
    /\ call.args.items = <<[productId |-> ProductA, qty |-> 2], [productId |-> ProductA, qty |-> 2]>>
    /\ Cardinality(db.transactions) = 1
    /\ Cardinality(mock.receipts) = 1
    /\ Quantity(db, ProductA) = 1
    /\ Quantity(mock, ProductA) = -1

(***************************************************************************)
(* C25.  The total the POS page shows in the confirmation dialog and sends *)
(* to the printer, totalPayable, equals the totalAmount the checkout       *)
(* computes and stores for the same cart and discount, for every cart,     *)
(* every discount and both values of roundOff.                             *)
(***************************************************************************)
C25_SameTotal ==
    [][(CheckoutStep /\ reply'.success) =>
          /\ reply'.data.totalAmount = totalPayable(db, ActiveBill(till))
          /\ \E t \in db'.transactions :
                 /\ t.id = reply'.data.transactionId
                 /\ t.finalAmount = totalPayable(db, ActiveBill(till))]_vars

\* A bill of 10.00 plus 0.50 tax, no discount, round-off on, has been saved:
\* the page showed 11.00 and the sale is stored with 10.50.
C25_RoundedOnPage ==
    /\ CheckoutSucceeded
    /\ ActiveBill(till).roundOff
    /\ ActiveBill(till).billDiscount = 0
    /\ ActiveBill(till).items = <<[productId |-> HalfItem, qty |-> 1]>>
    /\ totalPayable(HalfDb, ActiveBill(till)) = 22
    /\ reply.data.totalAmount = 21

(***************************************************************************)
(* SpecAccounts: the admin creates accounts and changes passwords, and     *)
(* people log in.                                                          *)
(***************************************************************************)
ClerkId == 3           \* the id the first created user gets

AccountNames == {"staff1", "clerk"}

UsersCreateArgs ==
    [currentUserId : {AdminId, StaffId}, name : AccountNames, password : {"pw"},
     role : {"staff"}]

PasswordPatchArgs ==
    [currentUserId : {AdminId}, id : {StaffId, ClerkId},
     patch : [password : {Plain("new")}]]

LoginArgs == [name : AccountNames \cup {"nobody"}, password : {"pw", "new"}]

NextAccounts ==
    \/ \E args \in UsersCreateArgs : UsersCreate(args) /\ UNCHANGED <<pending, renderer, session>>
    \/ \E args \in PasswordPatchArgs :
          UsersUpdate(args) /\ UNCHANGED <<pending, renderer, session>>
    \/ \E args \in LoginArgs : AuthLogin(args) /\ UNCHANGED <<pending, renderer>>
    \/ \E i \in 1..MaxAwaiting : Resume(i) /\ UNCHANGED <<pending, renderer>>
    \/ Deliver

SpecAccounts == InitAuth /\ [][NextAccounts]_vars

\* A step in which auth:login answers.
LoginAnswers == Idle /\ call'.channel = "auth:login"

\* The account a login names, the row not having changed since the handler
\* read it.
LoginAccount(u) ==
    /\ u \in db.users
    /\ u.name = call'.args.name
    /\ \A i \in DOMAIN awaiting : awaiting[i].args = call'.args => awaiting[i].locals = u

\* C28: every account can log in with the password it was given: when
\* auth:login answers for the name of an active user and the password that
\* users:create, users:update, auth:setup-admin or the seed set for it, the
\* answer is a success.
C28_CanLogIn ==
    [][\A u \in db.users :
          LoginAnswers /\ LoginAccount(u) /\ u.active /\ u.password.text = call'.args.password
              => reply'.success]_vars

\* The account users:create made is refused with the password it was created with.
C28_Refused ==
    /\ call.channel = "auth:login"
    /\ ~reply.success
    /\ reply.error = Err("Invalid credentials", 0)
    /\ \E u \in db.users :
          /\ u.id = ClerkId
          /\ u.name = call.args.name
          /\ u.active
          /\ u.password = Plain(call.args.password)

(***************************************************************************)
(* SpecSession: people log in and out while the admin edits and deletes    *)
(* users, and auth:setup-admin is called at any time.                      *)
(***************************************************************************)
SessionLoginArgs == [name : {"admin", "staff1"}, password : {"staff123"}]

SetupAdminArgs == [name : {"root", "owner"}, password : {"pw"}]

SessionPatches == [active : BOOLEAN] \cup [role : {"admin", "staff"}]

SessionUpdateArgs == [currentUserId : {AdminId}, id : {StaffId}, patch : SessionPatches]

SessionDeleteArgs == [currentUserId : {AdminId, StaffId}, id : {AdminId, StaffId}]

NextSession ==
    \/ \E args \in SetupAdminArgs : AuthSetupAdmin(args) /\ UNCHANGED <<pending, renderer>>
    \/ \E args \in SessionLoginArgs : AuthLogin(args) /\ UNCHANGED <<pending, renderer>>
    \/ \E i \in 1..MaxAwaiting : Resume(i) /\ UNCHANGED <<pending, renderer>>
    \/ AuthLogout /\ UNCHANGED <<pending, renderer>>
    \/ \E args \in SessionUpdateArgs :
          UsersUpdate(args) /\ UNCHANGED <<pending, renderer, session>>
    \/ \E args \in SessionDeleteArgs :
          UsersDelete(args) /\ UNCHANGED <<pending, renderer, session>>
    \/ Deliver

SpecSession == InitAuth /\ [][NextSession]_vars

\* C27: session validity: currentUser is null, or it names a user that is in
\* the users table, is active and has the role the table stores for it, in
\* every state reached by auth:login, auth:logout, users:update and users:delete.
C27_SessionValid ==
    \/ currentUser = NoUser
    \/ \E u \in db.users :
          u.id = currentUser.id /\ u.active /\ u.role = currentUser.role

\* staff1 is logged in and the admin has deleted the account.
C27_SessionOfDeleted ==
    /\ currentUser.id = StaffId
    /\ StaffId \notin Ids(db.users)
    /\ call.channel = "users:delete"
    /\ reply.success

\* A step in which auth:setup-admin answers, at once or after its await.
SetupAdminAnswers == Idle /\ call'.channel = "auth:setup-admin"

\* The users that were not seeded: in SpecSession only auth:setup-admin makes one.
SetupAdmins(d) == {u \in d.users : u.id \notin Ids(SeedUsers)}

DeleteArgs == [currentUserId : {AdminId, StaffId}, id : {AdminId, StaffId, GhostUserId}]

OwnStoreSettingsArgs == [userId : {StaffId}, allowNegativeStock : {FALSE}]

OwnSettingsArgs == [userId : {StaffId}, landingPage : {"pos"}]

OwnNotificationsArgs == [userId : {StaffId}]

StaffSales == CheckoutArgs({StaffId}, {0}, Lines({ProductB}, {1}))

NextUsers ==
    \/ \E args \in DeleteArgs : UsersDelete(args) /\ UNCHANGED <<pending, renderer, session>>
    \/ \E args \in OwnStoreSettingsArgs :
          StoreSettingsUpsert(args) /\ UNCHANGED <<pending, renderer, session>>
    \/ \E args \in OwnSettingsArgs :
          UserSettingsUpsert(args) /\ UNCHANGED <<pending, renderer, session>>
    \/ \E args \in OwnNotificationsArgs :
          NotificationsUpsert(args) /\ UNCHANGED <<pending, renderer, session>>
    \/ \E args \in StaffSales :
          Idle /\ SalesLeft(MaxSales, args) /\ PosCheckout(args)
               /\ UNCHANGED <<pending, renderer, session>>
    \/ Deliver

SpecUsers == InitAuth /\ [][NextUsers]_vars

\* A step in which users:delete answers.
DeleteAnswers == Idle /\ call'.channel = "users:delete"

\* No users, user_settings, store_settings or notifications row of the user.
NoRowsOf(d, id) ==
    /\ id \notin Ids(d.users)
    /\ \A r \in d.user_settings \cup d.store_settings \cup d.notifications : r.userId # id

\* C29: users:delete called by an admin for an existing user succeeds and
\* leaves no users, user_settings, store_settings or notifications row of
\* that user (so neither the user without its rows nor the rows without the
\* user stay behind), also when the user has settings, notifications or sales.
C29_DeletesUser ==
    [][(/\ DeleteAnswers
        /\ assertAdmin(db, call'.args.currentUserId) = NoError
        /\ call'.args.id \in Ids(db.users))
          => reply'.success /\ NoRowsOf(db', call'.args.id)]_vars

\* The admin's users:delete of staff1, who has saved store settings, has
\* failed on the foreign key and staff1 is still there.
C29_DeleteRefused ==
    /\ call.channel = "users:delete"
    /\ call.args = [currentUserId |-> AdminId, id |-> StaffId]
    /\ reply = fail(FkFailed)
    /\ StaffId \in Ids(db.users)
    /\ \E r \in db.store_settings : r.userId = StaffId
    /\ \A r \in db.receipts \cup db.transactions : r.createdBy # StaffId

\* C30: the bill tabs: the list of open bills is never empty, the ids of its
\* bills are pairwise distinct, and once every checkout callback has run
\* activeBillId is the id of a bill of the list, through createNewBill,
\* cancelCurrentBill, tab switching and payAndSave.
C30_TabsSound ==
    /\ HasBill(till)
    /\ \A i, j \in 1..Len(till.bills) : i # j => till.bills[i].id # till.bills[j].id
    /\ till.sent = <<>> => \E i \in 1..Len(till.bills) : till.bills[i].id = till.activeBillId

\* Every callback has run and two open bills carry the same id.
C30_TwoBillsOneId ==
    /\ till.sent = <<>>
    /\ \E i, j \in 1..Len(till.bills) : i # j /\ till.bills[i].id = till.bills[j].id

====
